---- MODULE Spec2Model ----
(***************************************************************************)
(* Model of the waveform pipeline of piec:                                 *)
(*   - Scope.query_wf          (src/src/piec/drivers/instrument.py)        *)
(*   - interpolate_sparse_to_dense                                         *)
(*                 (src/src/piec/measurement_waveforms/discrete_waveform.py)*)
(*   - scale_waveform_data     (src/src/piec/drivers/instrument.py)        *)
(*   - Awg and Scope configuration methods, Instrument._check_params       *)
(*                             (src/src/piec/drivers/instrument.py)        *)
(*   - DiscreteWaveform, HysteresisLoop, PUNDPulse                         *)
(*                 (src/src/piec/measurement_waveforms/discrete_waveform.py)*)
(*   - the generator's waveform memory, as Awg.create_arb_wf documents it  *)
(*                             (src/src/piec/drivers/instrument.py)        *)
(* Text is a sequence of one-character strings.  The numbers that the      *)
(* oscilloscope's answer is converted to and the two axes computed from    *)
(* them, the x values, shares and samples of interpolate_sparse_to_dense,  *)
(* the scaled waveform codes and the times of the pulse train are binary   *)
(* floating-point values of single or double precision, rounded as IEEE    *)
(* 754 rounds them.  A rational [num, den] in lowest terms writes a float  *)
(* literal of the source, which is then taken to the nearest double        *)
(* (FloatOfRat).                                                           *)
(***************************************************************************)
EXTENDS Integers, Sequences, FiniteSets, Bags, TLC

VARIABLES
    python,        \* the interpreter the program runs on
    preamble,      \* text the oscilloscope answers to ":WAVeform:PREamble?"
    wire,          \* bytes/sample codes the oscilloscope holds for "WAVeform:DATA?"
    byte_order,    \* argument of query_wf
    unsigned,      \* argument of query_wf
    qpc,           \* "ready" before the call of query_wf, "done" after it
    qres,          \* outcome of query_wf
    osc_io,        \* the transport calls made on the oscilloscope, in order
    x_sparse,      \* argument of interpolate_sparse_to_dense
    y_sparse,      \* argument of interpolate_sparse_to_dense
    total_points,  \* argument of interpolate_sparse_to_dense
    dpc,           \* "ready" before the call, "done" after it
    dres,          \* outcome of interpolate_sparse_to_dense
    wf_data,       \* argument "data" of scale_waveform_data
    cpc,           \* "ready" before the call, "done" after it
    cres,          \* outcome of scale_waveform_data
    session,       \* the HysteresisLoop or PUNDPulse object
    entry,         \* how the caller drives it: run_experiment or its steps
    ncalls,        \* number of methods of the session called so far
    events,        \* transport calls and waits made so far, in order
    run,           \* outcome of the last method called on the session
    sparse_t,      \* sparse_t built by PUNDPulse.configure_awg
    sparse_v,      \* sparse_v built by PUNDPulse.configure_awg
    awg_mem,       \* waveform memory and selection of the generator
    inst,          \* class of the instrument a configuration method is called on
    inst_log,      \* commands written to that instrument so far
    inst_calls,    \* number of configuration calls made on it
    inst_res       \* the last configuration call and its outcome

vars == <<python, preamble, wire, byte_order, unsigned, qpc, qres, osc_io,
          x_sparse, y_sparse, total_points, dpc, dres,
          wf_data, cpc, cres,
          session, entry, ncalls, events, run, sparse_t, sparse_v, awg_mem,
          inst, inst_log, inst_calls, inst_res>>

decodeVars == <<preamble, wire, byte_order, unsigned, qpc, qres, osc_io>>
densifyVars == <<x_sparse, y_sparse, total_points, dpc, dres>>
scaleVars == <<wf_data, cpc, cres>>
sessionVars == <<session, entry, ncalls, events, run, sparse_t, sparse_v>>
deviceVars == <<awg_mem>>
configVars == <<inst, inst_log, inst_calls, inst_res>>

(***************************************************************************)
(* Bounds of the model.                                                    *)
(***************************************************************************)
MaxPoints == 3     \* largest "points" field the oscilloscope announces
MaxWire == 3       \* largest number of bytes/codes the oscilloscope sends
MaxBreakpoints == 3 \* longest breakpoint sequence
MaxX == 3          \* largest x coordinate of a breakpoint
MaxTotal == 4      \* largest total_points
MaxSamples == 3    \* longest table handed to scale_waveform_data
MaxLevel == 2      \* largest magnitude of a sample of that table
MaxCalls == 2      \* most methods a caller invokes on one session
MaxCycles == 2     \* largest n_cycles of a HysteresisLoop
MaxWidth == 2      \* longest pulse width or delay of a PUNDPulse, in ms
MaxConfigCalls == 2 \* most configuration calls made on one instrument

(***************************************************************************)
(* Rational numbers, for writing the float literals of the source.  A      *)
(* number is [num, den] in lowest terms with den > 0; den = 0 stands for   *)
(* the values that are not finite: 1/0 is inf, -1/0 is -inf, 0/0 is nan.   *)
(***************************************************************************)
Abs(n) == IF n < 0 THEN -n ELSE n

Sign(n) == IF n > 0 THEN 1 ELSE IF n < 0 THEN -1 ELSE 0

RECURSIVE Gcd(_, _)
Gcd(a, b) == IF b = 0 THEN a ELSE Gcd(b, a % b)

Rat(n, d) ==
    IF d = 0 THEN [num |-> Sign(n), den |-> 0]
    ELSE LET s == IF d < 0 THEN -1 ELSE 1
             g == Gcd(Abs(n), Abs(d))
         IN  [num |-> (s * n) \div g, den |-> (s * d) \div g]

RatInt(n) == [num |-> n, den |-> 1]

Pow10(k) == IF k <= 0 THEN 1 ELSE 10 ^ k

Pow2(k) == IF k <= 0 THEN 1 ELSE 2 ^ k

\* the powers of 2 below 2^31
PowersOf2 == {Pow2(b) : b \in 0..30}

\* the number of binary digits of 0 <= k < 2^31
BitLength(k) == Cardinality({p \in PowersOf2 : p <= k})

Max(a, b) == IF a >= b THEN a ELSE b

\* Op(v), the value v being computed first
With(v, Op(_)) == CHOOSE r \in {Op(x) : x \in {v}} : TRUE

\* the smallest and the largest element of a non-empty set of integers
SetMin(S) == LET T == S IN CHOOSE x \in T : \A y \in T : x <= y

SetMax(S) == 0 - SetMin({0 - x : x \in S})

\* the sum of the values of a function to the natural numbers
SumOf(f) == BagCardinality([i \in {j \in DOMAIN f : f[j] > 0} |-> f[i]])

(***************************************************************************)
(* Natural numbers of any size, for the mantissas of the binary floating-  *)
(* point values: the digits in base 2^15, lowest first, without a leading  *)
(* zero digit (0 is the empty sequence).  Every digit of a sum, a          *)
(* difference or a product is written down directly, its carry found by    *)
(* looking back to the digit that makes it, so that an expression does not *)
(* nest more deeply the longer the numbers are.                            *)
(***************************************************************************)
Base == Pow2(15)

LimbBits == BitLength(Base) - 1

\* the powers of 2 below Base
LimbPowers == {Pow2(b) : b \in 0..(LimbBits - 1)}

\* the digits a without the zeros at the high end
BigTrim(a) ==
    SubSeq(a, 1, Cardinality({i \in 1..Len(a) : \E j \in i..Len(a) : a[j] # 0}))

\* an integer 0 <= n < 2^31
BigOf(n) == BigTrim(<<n % Base, (n \div Base) % Base, n \div (Base * Base)>>)

Limb(a, i) == IF 1 <= i /\ i <= Len(a) THEN a[i] ELSE 0

\* the carry into digit i of a sum whose digits, before the carries, are
\* s[j] <= 2 * Base - 2: a digit below makes it and those between pass it on
CarryInto(s, i) ==
    \E j \in 1..(i - 1) :
        s[j] >= Base /\ \A k \in (j + 1)..(i - 1) : s[k] >= Base - 1

Carried(s) ==
    BigTrim([i \in 1..(Len(s) + 1) |->
                (Limb(s, i) + (IF CarryInto(s, i) THEN 1 ELSE 0)) % Base])

\* a + b
BigAdd(a, b) ==
    IF a = <<>> THEN b
    ELSE IF b = <<>> THEN a
    ELSE Carried([i \in 1..Max(Len(a), Len(b)) |-> Limb(a, i) + Limb(b, i)])

\* the borrow from digit i of a - b
BorrowFrom(a, b, i) ==
    \E j \in 1..(i - 1) :
        a[j] < Limb(b, j) /\ \A k \in (j + 1)..(i - 1) : a[k] <= Limb(b, k)

\* a - b for a >= b
BigSub(a, b) ==
    IF b = <<>> THEN a
    ELSE
    BigTrim([i \in 1..Len(a) |->
                (a[i] - Limb(b, i) - (IF BorrowFrom(a, b, i) THEN 1 ELSE 0)
                   + Base) % Base])

\* -1, 0 or 1 as a < b, a = b or a > b
CmpAt(a, b, diff) ==
    IF diff = {} THEN 0
    ELSE IF a[SetMax(diff)] < b[SetMax(diff)] THEN -1 ELSE 1

BigCmp(a, b) ==
    IF Len(a) # Len(b) THEN (IF Len(a) < Len(b) THEN -1 ELSE 1)
    ELSE CmpAt(a, b, {i \in 1..Len(a) : a[i] # b[i]})

\* a * m + c for 0 <= m <= Base and 0 <= c < Base: the low digit of each
\* product and the high digit of the one below it
BigMulSmall(a, m, c) ==
    IF a = <<>> THEN BigOf(c)
    ELSE
    Carried([i \in 1..(Len(a) + 1) |->
                ((Limb(a, i) * m) % Base) + ((Limb(a, i - 1) * m) \div Base)
                + (IF i = 1 THEN c ELSE 0)])

\* a * Base^k
ShiftLimbs(a, k) == IF a = <<>> THEN <<>> ELSE [i \in 1..k |-> 0] \o a

\* column k of the product a * b: the low digits of the products of its
\* place and the high digits of those one place below
Column(a, b, k) ==
    SumOf([i \in 1..Len(a) |->
              ((a[i] * Limb(b, k + 1 - i)) % Base)
              + ((a[i] * Limb(b, k - i)) \div Base)])

\* what lies beyond a digit is moved one place up
Spread(s) ==
    [k \in 1..(Len(s) + 1) |-> (Limb(s, k) % Base) + (Limb(s, k - 1) \div Base)]

\* a * b, for numbers of fewer than Base \div 2 digits
BigMul(a, b) ==
    IF a = <<>> \/ b = <<>> THEN <<>>
    ELSE Carried(Spread(Spread([k \in 1..(Len(a) + Len(b)) |->
                                  Column(a, b, k)])))

\* a * 2^k
BigShl(a, k) ==
    IF a = <<>> \/ k = 0 THEN a
    ELSE
    ShiftLimbs(BigTrim([i \in 1..(Len(a) + 1) |->
                          ((Limb(a, i) * Pow2(k % LimbBits)) % Base)
                          + ((Limb(a, i - 1) * Pow2(k % LimbBits)) \div Base)]),
               k \div LimbBits)

\* floor(a / 2^k), k = LimbBits * q + r
ShiftDown(a, q, r) ==
    IF q >= Len(a) THEN <<>>
    ELSE BigTrim([i \in 1..(Len(a) - q) |->
                    (a[i + q] \div Pow2(r))
                    + (Limb(a, i + q + 1) % Pow2(r)) * Pow2(LimbBits - r)])

BigShr(a, k) ==
    IF a = <<>> \/ k = 0 THEN a ELSE ShiftDown(a, k \div LimbBits, k % LimbBits)

BigBitLen(a) ==
    IF a = <<>> THEN 0
    ELSE LimbBits * (Len(a) - 1)
         + Cardinality({p \in LimbPowers : p <= a[Len(a)]})

BigIsOdd(a) == a # <<>> /\ a[1] % 2 = 1

\* bit k of a, bit 0 the lowest
BigBit(a, k) == (Limb(a, (k \div LimbBits) + 1) \div Pow2(k % LimbBits)) % 2

\* the same for a > 0, i its lowest digit that is not zero
LowZerosAt(a, i) ==
    LimbBits * (i - 1) + Cardinality({p \in LimbPowers : a[i] % p = 0}) - 1

BigLowZeros(a) == LowZerosAt(a, SetMin({i \in 1..Len(a) : a[i] # 0}))

\* the digit of the quotient for the running remainder r < d * Base, d with
\* its top bit set: the two top digits of r over the top digit of d are at
\* most 2 above it
Fits(r, d, q) == q >= 0 /\ BigCmp(BigMulSmall(d, q, 0), r) <= 0

QuotientFrom(r, d, guess) ==
    IF Fits(r, d, guess) THEN guess
    ELSE IF Fits(r, d, guess - 1) THEN guess - 1
    ELSE guess - 2

QuotientGuess(r, d) ==
    (Limb(r, Len(d) + 1) * Base + Limb(r, Len(d))) \div d[Len(d)]

QuotientDigit(r, d) ==
    QuotientFrom(r, d, IF QuotientGuess(r, d) >= Base THEN Base - 1
                       ELSE QuotientGuess(r, d))

\* one step of the long division by d: the next digit low of the dividend
\* is taken down to the remainder st.r, and the digit of the quotient found
\* is put before the digits st.qs found so far
DivTake(d, x, q, qs) ==
    [r |-> IF q = 0 THEN x ELSE BigSub(x, BigMulSmall(d, q, 0)),
     qs |-> <<q>> \o qs]

DivStep(d, low, st) ==
    With(BigTrim(<<low>> \o st.r),
         LAMBDA x : DivTake(d, x, QuotientDigit(x, d), st.qs))

\* the long division of a by d continued from st until the quotient has
\* its n digits
RECURSIVE BigDivFrom(_, _, _, _)
BigDivFrom(a, d, n, st) ==
    IF Len(st.qs) = n THEN st
    ELSE BigDivFrom(a, d, n, DivStep(d, a[n - Len(st.qs)], st))

\* the division of a by d, d with its top bit set: the digits of a above
\* its lowest Len(a) - Len(d) + 1 are the first remainder
BigDivNormal(a, d) ==
    IF Len(a) < Len(d) THEN [r |-> a, qs |-> <<>>]
    ELSE BigDivFrom(a, d, Len(a) - Len(d) + 1,
                    [r |-> BigTrim(SubSeq(a, Len(a) - Len(d) + 2, Len(a))),
                     qs |-> <<>>])

\* q = floor(a / d), and whether the division is exact, for d > 0: both are
\* multiplied by the power of 2 that sets the top bit of the top digit of d
Quotient(st) == [q |-> BigTrim(st.qs), exact |-> st.r = <<>>]

BigDiv(a, d) ==
    Quotient(BigDivNormal(BigShl(a, LimbBits - BitLength(d[Len(d)])),
                          BigShl(d, LimbBits - BitLength(d[Len(d)]))))

\* x^k for k >= 1, as the product of its two halves
RECURSIVE BigPowTree(_, _)
BigPowTree(x, k) ==
    IF k = 1 THEN x
    ELSE BigMul(BigPowTree(x, k \div 2), BigPowTree(x, k - (k \div 2)))

\* 5^k: 5^13 is the largest power of 5 below 2^31
BigPow5(k) ==
    IF k < 13 THEN BigOf(5 ^ k)
    ELSE BigMul(BigPowTree(BigOf(5 ^ 13), k \div 13), BigOf(5 ^ (k % 13)))

\* 10^k
BigPow10(k) == BigShl(BigPow5(k), k)

(***************************************************************************)
(* Binary floating-point values (IEEE 754).  A finite value is             *)
(* (-1)^neg * mant * 2^exp with mant odd, or mant = 0 and exp = 0 for the  *)
(* two zeros; cls tells the infinities and not-a-number from the finite    *)
(* values.  A format is the number p of mantissa bits, the exponent emin   *)
(* of the lowest bit of the smallest value, and the exponent emax of the   *)
(* top bit of the largest.                                                 *)
(***************************************************************************)
Single == [p |-> 24, emin |-> -149, emax |-> 127]

Double == [p |-> 53, emin |-> -1074, emax |-> 1023]

FNaN == [cls |-> "nan", neg |-> FALSE, mant |-> <<>>, exp |-> 0]

FInf(neg) == [cls |-> "inf", neg |-> neg, mant |-> <<>>, exp |-> 0]

FZero(neg) == [cls |-> "fin", neg |-> neg, mant |-> <<>>, exp |-> 0]

\* (-1)^neg * m * 2^e for m > 0, with the mantissa made odd
FinOdd(neg, m, e, z) ==
    [cls |-> "fin", neg |-> neg, mant |-> BigShr(m, z), exp |-> e + z]

Fin(neg, m, e) ==
    IF m = <<>> THEN FZero(neg) ELSE FinOdd(neg, m, e, BigLowZeros(m))

\* the float of an integer
FloatOfInt(n) == Fin(n < 0, BigOf(IF n < 0 THEN -n ELSE n), 0)

\* m * 2^e if the format holds it, the infinity if it lies beyond
Ranged(neg, m, e, fmt) ==
    IF BigBitLen(m) + e > fmt.emax + 1 THEN FInf(neg) ELSE Fin(neg, m, e)

\* q = floor(m / 2^s) rounded to nearest, ties to even: it is rounded up
\* when the highest bit rounded away is set and either a lower one is too
\* or q is odd
RoundUp(m, s, q) ==
    IF BigBit(m, s - 1) = 1 /\ (BigLowZeros(m) < s - 1 \/ BigIsOdd(q))
    THEN BigAdd(q, <<1>>) ELSE q

\* m * 2^e with the s lowest bits of m rounded away
RoundShift(neg, m, e, fmt, s) ==
    IF s <= 0 THEN Ranged(neg, m, e, fmt)
    ELSE IF s > BigBitLen(m) THEN FZero(neg)
    ELSE Ranged(neg, RoundUp(m, s, BigShr(m, s)), e + s, fmt)

\* (-1)^neg * m * 2^e rounded to the format: to p bits, or to the lowest
\* bit of the format where fewer are left (subnormal values)
RoundTo(neg, m, e, fmt) ==
    IF m = <<>> THEN FZero(neg)
    ELSE RoundShift(neg, m, e, fmt,
                    Max(BigBitLen(m) - fmt.p, fmt.emin - e))

\* a value converted to the format
Cast(a, fmt) ==
    IF a.cls # "fin" THEN a ELSE RoundTo(a.neg, a.mant, a.exp, fmt)

\* (-1)^neg * (n / d) * 2^e rounded to the format, for n, d > 0: n is
\* scaled by 2^k so that the quotient has p + 2 bits or more, and one more
\* bit tells whether anything is left (of the division, or of n when it is
\* scaled down)
RoundQuotient(neg, qd, left, e, fmt) ==
    RoundTo(neg, BigMulSmall(qd.q, 2, IF qd.exact /\ ~left THEN 0 ELSE 1),
            e - 1, fmt)

RoundScaled(neg, n, d, e, fmt, k) ==
    IF k >= 0 THEN RoundQuotient(neg, BigDiv(BigShl(n, k), d), FALSE, e - k, fmt)
    ELSE RoundQuotient(neg, BigDiv(BigShr(n, -k), d), BigLowZeros(n) < -k,
                       e - k, fmt)

RoundRat(neg, n, d, e, fmt) ==
    RoundScaled(neg, n, d, e, fmt, fmt.p + 2 + BigBitLen(d) - BigBitLen(n))

\* the float nearest to an exact number [num, den]
FloatOfRat(v, fmt) ==
    IF v.den = 0 THEN (IF v.num = 0 THEN FNaN ELSE FInf(v.num < 0))
    ELSE IF v.num = 0 THEN FZero(FALSE)
    ELSE RoundRat(v.num < 0, BigOf(IF v.num < 0 THEN -v.num ELSE v.num),
                  BigOf(v.den), 0, fmt)

\* a * b rounded to the format
FMul(a, b, fmt) ==
    IF a.cls = "nan" \/ b.cls = "nan" THEN FNaN
    ELSE IF a.cls = "inf" \/ b.cls = "inf"
    THEN (IF (a.cls = "fin" /\ a.mant = <<>>) \/ (b.cls = "fin" /\ b.mant = <<>>)
          THEN FNaN ELSE FInf(a.neg # b.neg))
    ELSE RoundTo(a.neg # b.neg, BigMul(a.mant, b.mant), a.exp + b.exp, fmt)

\* the sum of two finite values whose mantissas ma and mb are scaled to the
\* exponent e
AddAligned(na, ma, nb, mb, e, fmt) ==
    IF na = nb THEN RoundTo(na, BigAdd(ma, mb), e, fmt)
    ELSE IF BigCmp(ma, mb) = 0 THEN FZero(FALSE)
    ELSE IF BigCmp(ma, mb) > 0 THEN RoundTo(na, BigSub(ma, mb), e, fmt)
    ELSE RoundTo(nb, BigSub(mb, ma), e, fmt)

AddFinite(a, b, e, fmt) ==
    AddAligned(a.neg, BigShl(a.mant, a.exp - e),
               b.neg, BigShl(b.mant, b.exp - e), e, fmt)

\* the exponent of the bit above the top bit of a finite a # 0
Top(a) == a.exp + BigBitLen(a.mant)

\* b is too small to change a value a of the format when added to it
Negligible(a, b, fmt) ==
    /\ a.mant # <<>> /\ b.mant # <<>>
    /\ Top(a) - Top(b) >= fmt.p + 3
    /\ Cast(a, fmt) = a

\* a + b rounded to the format
FAdd(a, b, fmt) ==
    IF a.cls = "nan" \/ b.cls = "nan" THEN FNaN
    ELSE IF a.cls = "inf" /\ b.cls = "inf"
    THEN (IF a.neg = b.neg THEN a ELSE FNaN)
    ELSE IF a.cls = "inf" THEN a
    ELSE IF b.cls = "inf" THEN b
    ELSE IF Negligible(a, b, fmt) THEN a
    ELSE IF Negligible(b, a, fmt) THEN b
    ELSE AddFinite(a, b, IF a.exp < b.exp THEN a.exp ELSE b.exp, fmt)

\* a < b for finite a and b that are not both zero
FiniteFloatLess(a, b, e) ==
    IF a.neg # b.neg THEN a.neg
    ELSE IF a.neg
    THEN BigCmp(BigShl(a.mant, a.exp - e), BigShl(b.mant, b.exp - e)) > 0
    ELSE BigCmp(BigShl(a.mant, a.exp - e), BigShl(b.mant, b.exp - e)) < 0

\* a < b; FALSE whenever one of them is nan
FLess(a, b) ==
    IF a.cls = "nan" \/ b.cls = "nan" THEN FALSE
    ELSE IF a.cls = "inf" THEN a.neg /\ ~(b.cls = "inf" /\ b.neg)
    ELSE IF b.cls = "inf" THEN ~b.neg
    ELSE IF a.mant = <<>> /\ b.mant = <<>> THEN FALSE
    ELSE IF a.mant = <<>> THEN ~b.neg
    ELSE IF b.mant = <<>> THEN a.neg
    ELSE IF a.neg = b.neg /\ Top(a) # Top(b)
    THEN (Top(a) < Top(b)) # a.neg
    ELSE FiniteFloatLess(a, b, IF a.exp < b.exp THEN a.exp ELSE b.exp)

\* a <= b; FALSE whenever one of them is nan
FLeq(a, b) == a.cls # "nan" /\ b.cls # "nan" /\ ~FLess(b, a)

FNeg(a) == IF a.cls = "nan" THEN a ELSE [a EXCEPT !.neg = ~a.neg]

\* a - b rounded to the format
FSub(a, b, fmt) == FAdd(a, FNeg(b), fmt)

\* a / b rounded to the format, as IEEE 754 divides: x / 0 is an infinity
\* and 0 / 0 is not a number (numpy divides so; Python raises
\* ZeroDivisionError before it divides a float by zero)
FDiv(a, b, fmt) ==
    IF a.cls = "nan" \/ b.cls = "nan" THEN FNaN
    ELSE IF a.cls = "inf"
    THEN (IF b.cls = "inf" THEN FNaN ELSE FInf(a.neg # b.neg))
    ELSE IF b.cls = "inf" THEN FZero(a.neg # b.neg)
    ELSE IF b.mant = <<>>
    THEN (IF a.mant = <<>> THEN FNaN ELSE FInf(a.neg # b.neg))
    ELSE IF a.mant = <<>> THEN FZero(a.neg # b.neg)
    ELSE RoundRat(a.neg # b.neg, a.mant, b.mant, a.exp - b.exp, fmt)

IsZero(a) == a.cls = "fin" /\ a.mant = <<>>

\* a number below 2^31 as an integer
BigToInt(a) == Limb(a, 1) + Limb(a, 2) * Base + Limb(a, 3) * Base * Base

\* the whole part of the magnitude of a finite value
WholePart(a) ==
    IF a.exp >= 0 THEN BigShl(a.mant, a.exp) ELSE BigShr(a.mant, -a.exp)

\* a finite value of magnitude below 2^31 as an integer: what lies behind
\* the point is dropped
FTrunc(a) ==
    IF a.neg THEN -BigToInt(WholePart(a)) ELSE BigToInt(WholePart(a))

\* the magnitude of a finite value rounded to a whole number, ties to the
\* even one
NearestWhole(a) ==
    IF a.exp >= 0 THEN BigShl(a.mant, a.exp)
    ELSE IF -a.exp > BigBitLen(a.mant) THEN <<>>
    ELSE RoundUp(a.mant, -a.exp, BigShr(a.mant, -a.exp))

\* a Python int, which has no largest value: its sign and its magnitude
PyInt(n) == [neg |-> n < 0, mag |-> BigOf(IF n < 0 THEN -n ELSE n)]

\* the int lies below 2^31 in magnitude
IsSmall(c) == BigBitLen(c.mag) <= 31

\* the value of an int with IsSmall
IntOf(c) == IF c.neg THEN -BigToInt(c.mag) ELSE BigToInt(c.mag)

\* int(a) for a finite a: what lies behind the point is dropped
IntOfFloat(a) ==
    [neg |-> a.neg /\ WholePart(a) # <<>>, mag |-> WholePart(a)]

\* round(a) for a finite a
RoundOfFloat(a) ==
    [neg |-> a.neg /\ NearestWhole(a) # <<>>, mag |-> NearestWhole(a)]

\* float(c) of a Python int that no double overflows
FloatOfPyInt(c) ==
    IF c.mag = <<>> THEN FZero(FALSE) ELSE RoundTo(c.neg, c.mag, 0, Double)

\* the magnitude of the difference of two naturals
BigDist(a, b) == IF BigCmp(a, b) >= 0 THEN BigSub(a, b) ELSE BigSub(b, a)

\* the double out lies within 2^-bits of the fraction num/den (den > 0)
AgreesTo(out, num, den, bits) ==
    /\ out.cls = "fin"
    /\ LET up == IF out.exp > 0 THEN out.exp ELSE 0
           down == IF out.exp < 0 THEN 0 - out.exp ELSE 0
           a == BigShl(BigMul(out.mant, BigOf(den)), up)
           b == BigShl(BigOf(IF num < 0 THEN 0 - num ELSE num), down)
           dist == IF out.neg = (num < 0) \/ num = 0 \/ out.mant = <<>>
                   THEN BigDist(a, b) ELSE BigAdd(a, b)
       IN  BigCmp(BigShl(dist, bits), BigShl(BigOf(den), down)) <= 0

(***************************************************************************)
(* Text handling: str.split(), str.split(','), int(), float().  A text is  *)
(* a sequence of characters, each a string; a character beyond ASCII, or   *)
(* one that has no escape in a string of this language, is written by its  *)
(* Python escape ("\\x0b" is the one character U+000B, "\\uff11" the        *)
(* fullwidth digit one).                                                   *)
(***************************************************************************)
Digits == <<"0", "1", "2", "3", "4", "5", "6", "7", "8", "9">>

HexDigits == <<"0", "1", "2", "3", "4", "5", "6", "7", "8", "9",
               "a", "b", "c", "d", "e", "f">>

\* n in hexadecimal, in width digits
RECURSIVE Hex(_, _)
Hex(n, width) ==
    IF width = 0 THEN ""
    ELSE Hex(n \div 16, width - 1) \o HexDigits[(n % 16) + 1]

\* how the character with a code beyond ASCII is written here: by its
\* Python escape, as ascii() gives it
Escape(code) ==
    IF code < 256 THEN "\\x" \o Hex(code, 2)
    ELSE IF code < 65536 THEN "\\u" \o Hex(code, 4)
    ELSE "\\U" \o Hex(code, 8)

\* the interpreters the program runs on: Python 3.11 reads text by the
\* character tables of Unicode 14.0, Python 3.12 by those of Unicode 15.0
\* (sum() adds one float after the other up to 3.11 and with compensation
\* from 3.12 on)
Pythons == {"3.11", "3.12"}

\* the codes of the characters that are the digit zero of a script (Unicode
\* category Nd, version 14.0): the nine characters after each are its
\* digits one to nine
DecimalZeros14 ==
    {48, 1632, 1776, 1984, 2406, 2534, 2662, 2790, 2918, 3046, 3174, 3302,
     3430, 3558, 3664, 3792, 3872, 4160, 4240, 6112, 6160, 6470, 6608, 6784,
     6800, 6992, 7088, 7232, 7248, 42528, 43216, 43264, 43472, 43504, 43600,
     44016, 65296, 66720, 68912, 69734, 69872, 69942, 70096, 70384, 70736,
     70864, 71248, 71360, 71472, 71904, 72016, 72784, 73040, 73120, 92768,
     92864, 93008, 120782, 120792, 120802, 120812, 120822, 123200, 123632,
     125264, 130032}

\* the digits Unicode 15.0 adds: those of Kawi and of Nag Mundari
DecimalZeros ==
    [py \in Pythons |->
        IF py = "3.11" THEN DecimalZeros14
        ELSE DecimalZeros14 \cup {73552, 124144}]

\* the characters int() and float() read as the digit d
DecimalDigits ==
    [py \in Pythons |->
        [d \in 0..9 |->
            {IF z < 128 THEN Digits[d + 1] ELSE Escape(z + d) :
                z \in DecimalZeros[py]}]]

IsDigit(c, py) == \E d \in 0..9 : c \in DecimalDigits[py][d]

DigitVal(c, py) == CHOOSE d \in 0..9 : c \in DecimalDigits[py][d]

\* the digits written in ASCII
AsciiDigits(ds, py) ==
    [i \in 1..Len(ds) |-> Digits[DigitVal(ds[i], py) + 1]]

\* the value of a digit of ASCII
DigitOf(c) == CHOOSE d \in 0..9 : Digits[d + 1] = c

\* the characters str.split() separates at: those for which str.isspace()
WhiteSpace ==
    {" ", "\t", "\n", "\r", "\f", "\\x0b", "\\x1c", "\\x1d", "\\x1e", "\\x1f",
     "\\x85", "\\xa0", "\\u1680", "\\u2000", "\\u2001", "\\u2002", "\\u2003",
     "\\u2004", "\\u2005", "\\u2006", "\\u2007", "\\u2008", "\\u2009",
     "\\u200a", "\\u2028", "\\u2029", "\\u202f", "\\u205f", "\\u3000"}

\* the k-th smallest element of a set of positions
NthOf(S, k) == CHOOSE i \in S : Cardinality({j \in S : j <= i}) = k

\* the word of s that starts at position st: it ends before the next
\* whitespace
WordFrom(s, st, spaces) ==
    SubSeq(s, st, IF spaces = {} THEN Len(s) ELSE SetMin(spaces) - 1)

WordAt(s, st) ==
    WordFrom(s, st, {j \in st..Len(s) : s[j] \in WhiteSpace})

WordsAt(s, starts) ==
    [k \in 1..Cardinality(starts) |-> WordAt(s, NthOf(starts, k))]

\* str.split() with no argument: runs of whitespace separate, no empty pieces
SplitWS(s) ==
    WordsAt(s, {i \in 1..Len(s) :
                   s[i] \notin WhiteSpace /\ (i = 1 \/ s[i - 1] \in WhiteSpace)})

\* the pieces of s between the separators at the positions seps
SplitAt(s, seps) ==
    [k \in 1..(Cardinality(seps) + 1) |->
        SubSeq(s, IF k = 1 THEN 1 ELSE NthOf(seps, k - 1) + 1,
                  IF k = Cardinality(seps) + 1 THEN Len(s)
                  ELSE NthOf(seps, k) - 1)]

\* str.split(','): every comma separates, empty pieces are kept
SplitComma(s) == SplitAt(s, {i \in 1..Len(s) : s[i] = ","})

\* the text from its first to its last character of the positions kept
Between(s, kept) ==
    IF kept = {} THEN <<>> ELSE SubSeq(s, SetMin(kept), SetMax(kept))

\* the characters int() and float() drop at the two ends of a text: the
\* whitespace of ASCII as C has it, and the whitespace beyond ASCII; the
\* four separators U+001C to U+001F are whitespace for str.isspace() only
NumberSpace == WhiteSpace \ {"\\x1c", "\\x1d", "\\x1e", "\\x1f"}

\* the text without the characters int() and float() drop at its two ends
Strip(s) == Between(s, {i \in 1..Len(s) : s[i] \notin NumberSpace})

\* the digits of int() and float(): single underscores may stand between
\* digits
DigitPart(ds, py) ==
    /\ Len(ds) >= 1
    /\ IsDigit(ds[1], py) /\ IsDigit(ds[Len(ds)], py)
    /\ \A i \in 1..Len(ds) : IsDigit(ds[i], py) \/ ds[i] = "_"
    /\ \A i \in 1..(Len(ds) - 1) : ~(ds[i] = "_" /\ ds[i + 1] = "_")

DropUnderscores(ds) ==
    LET IsNotUnderscore(c) == c # "_" IN SelectSeq(ds, IsNotUnderscore)

\* the digits from the first one of the positions kept on
FromFirst(ds, kept) ==
    IF kept = {} THEN <<>> ELSE SubSeq(ds, SetMin(kept), Len(ds))

\* the digits without leading zeros (none left for the value 0)
Significant(ds) == FromFirst(ds, {i \in 1..Len(ds) : ds[i] # "0"})

\* the value of the digits ds, written in ASCII
DigitsVal(ds) ==
    SumOf([i \in 1..Len(ds) |-> DigitOf(ds[i]) * Pow10(Len(ds) - i)])

\* the value of -ds
NegDigitsVal(ds) ==
    IF ds = <<>> THEN 0
    ELSE (-10 * DigitsVal(SubSeq(ds, 1, Len(ds) - 1))) - DigitOf(ds[Len(ds)])

\* the number a sequence of digits denotes: nine digits directly, more by
\* their two halves
RECURSIVE BigFromDigits(_)
BigFromHalves(hi, lo) ==
    BigAdd(BigMul(BigFromDigits(hi), BigPow10(Len(lo))), BigFromDigits(lo))

BigFromDigits(ds) ==
    IF Len(ds) <= 9 THEN BigOf(DigitsVal(ds))
    ELSE BigFromHalves(SubSeq(ds, 1, Len(ds) \div 2),
                       SubSeq(ds, (Len(ds) \div 2) + 1, Len(ds)))

\* a <= b for digit sequences without leading zeros
DigitsLeq(a, b) ==
    \/ Len(a) < Len(b)
    \/ /\ Len(a) = Len(b)
       /\ \/ a = b
          \/ \E i \in 1..Len(a) :
                /\ \A j \in 1..(i - 1) : a[j] = b[j]
                /\ DigitOf(a[i]) < DigitOf(b[i])

HasSign(tok) == Len(tok) >= 1 /\ tok[1] \in {"+", "-"}

SignOf(tok) == IF HasSign(tok) /\ tok[1] = "-" THEN -1 ELSE 1

StripSign(tok) == IF HasSign(tok) THEN Tail(tok) ELSE tok

\* a stripped text as an integer: an optional sign and a digit part
SignedDigits(t, py) ==
    IF DigitPart(StripSign(t), py)
    THEN [ok |-> TRUE, neg |-> SignOf(t) = -1,
          digits |-> Significant(AsciiDigits(DropUnderscores(StripSign(t)),
                                             py))]
    ELSE [ok |-> FALSE, neg |-> FALSE, digits |-> <<>>]

\* int() reads no text of more digits than this (sys.int_info
\* .default_max_str_digits): it raises ValueError
MaxStrDigits == 4300

\* the characters of the digit part other than underscores are more than
\* int() reads (leading zeros count)
TooManyDigits(ds) ==
    Len(ds) > MaxStrDigits /\ Len(DropUnderscores(ds)) > MaxStrDigits

\* int(text): whitespace around the number is dropped
IntText(tok, py) ==
    IF TooManyDigits(StripSign(Strip(tok)))
    THEN [ok |-> FALSE, neg |-> FALSE, digits |-> <<>>]
    ELSE SignedDigits(Strip(tok), py)

\* the largest magnitude of a positive and of a negative integer of the width
MaxDigits(bits, neg) ==
    CASE bits = 16 -> IF neg THEN <<"3", "2", "7", "6", "8">>
                      ELSE <<"3", "2", "7", "6", "7">>
      [] bits = 32 -> IF neg
                      THEN <<"2", "1", "4", "7", "4", "8", "3", "6", "4", "8">>
                      ELSE <<"2", "1", "4", "7", "4", "8", "3", "6", "4", "7">>
      [] bits = 64 -> IF neg
                      THEN <<"9", "2", "2", "3", "3", "7", "2", "0", "3", "6",
                             "8", "5", "4", "7", "7", "5", "8", "0", "8">>
                      ELSE <<"9", "2", "2", "3", "3", "7", "2", "0", "3", "6",
                             "8", "5", "4", "7", "7", "5", "8", "0", "7">>

\* the 16 bits of a from bit k on
BitsFrom(a, k) == (BigShr(a, k)[1] + (Limb(BigShr(a, k), 2) % 2) * Base)

Bits16(a, k) == IF BigShr(a, k) = <<>> THEN 0 ELSE BitsFrom(a, k)

\* ds modulo 2^16
Mod16(ds) == Bits16(BigFromDigits(ds), 0)

\* ds modulo 2^32, as its high and low 16 bits
Mod32(ds) ==
    [hi |-> Bits16(BigFromDigits(ds), 16), lo |-> Bits16(BigFromDigits(ds), 0)]

\* the integer of the width that a C cast leaves of the value (two's
\* complement wrap-around)
Wrap16(u) == IF u >= 32768 THEN u - 65536 ELSE u

Wrap32(hi, lo) ==
    IF hi >= 32768 THEN (hi - 65536) * 65536 + lo ELSE hi * 65536 + lo

Wrapped(t, bits) ==
    IF bits = 16
    THEN Wrap16(IF t.neg THEN (65536 - Mod16(t.digits)) % 65536
                ELSE Mod16(t.digits))
    ELSE IF t.neg
    THEN Wrap32((131072 - Mod32(t.digits).hi
                   - (IF Mod32(t.digits).lo # 0 THEN 1 ELSE 0)) % 65536,
                (65536 - Mod32(t.digits).lo) % 65536)
    ELSE Wrap32(Mod32(t.digits).hi, Mod32(t.digits).lo)

\* what numpy does with an integer text that does not fit the width: it
\* raises OverflowError, or it keeps the low bits of the value (a value
\* beyond 64 bits raises in both)
NumpyBuilds == {"raises", "wraps"}

\* the integer t = int(text) converted to the width
IntOfWidth(t, bits, np) ==
    IF ~t.ok THEN [ok |-> FALSE, error |-> "ValueError", val |-> 0]
    ELSE IF DigitsLeq(t.digits, MaxDigits(bits, t.neg))
    THEN [ok |-> TRUE, error |-> "none",
          val |-> IF t.neg THEN NegDigitsVal(t.digits)
                  ELSE DigitsVal(t.digits)]
    ELSE IF np = "wraps" /\ DigitsLeq(t.digits, MaxDigits(64, t.neg))
    THEN [ok |-> TRUE, error |-> "none", val |-> Wrapped(t, bits)]
    ELSE [ok |-> FALSE, error |-> "OverflowError", val |-> 0]

\* np.int16(text) (bits = 16), np.int32(text) (bits = 32)
ParseInt(tok, bits, np, py) == IntOfWidth(IntText(tok, py), bits, np)

\* position of the first character of s that lies in cs, 0 when there is none
FirstIn(s, cs) ==
    LET hits == {i \in 1..Len(s) : s[i] \in cs}
    IN  IF hits = {} THEN 0 ELSE CHOOSE i \in hits : \A j \in hits : i <= j

\* the grave accent (code 96): between quotation marks it opens a quoted
\* passage that the apostrophe closes, so it is cut out of one
GraveAccent == SubSeq("`'", 1, 1)

\* the characters with codes 32 to 126
Printable ==
    <<" ", "!", "\"", "#", "$", "%", "&", "'", "(", ")", "*", "+", ",", "-",
      ".", "/", "0", "1", "2", "3", "4", "5", "6", "7", "8", "9", ":", ";",
      "<", "=", ">", "?", "@", "A", "B", "C", "D", "E", "F", "G", "H", "I",
      "J", "K", "L", "M", "N", "O", "P", "Q", "R", "S", "T", "U", "V", "W",
      "X", "Y", "Z", "[", "\\", "]", "^", "_", GraveAccent, "a", "b", "c",
      "d", "e", "f", "g", "h", "i", "j", "k", "l", "m", "n", "o", "p", "q",
      "r", "s", "t", "u", "v", "w", "x", "y", "z", "{", "|", "}", "~">>

\* the value of the hexadecimal digits h
HexVal(h) ==
    SumOf([i \in 1..Len(h) |->
             (CHOOSE d \in 0..15 : HexDigits[d + 1] = SubSeq(h, i, i))
                 * (16 ^ (Len(h) - i))])

\* the code of a character
Code(c) ==
    IF Len(c) > 1 THEN HexVal(SubSeq(c, 3, Len(c)))
    ELSE CASE c = "\t" -> 9
           [] c = "\n" -> 10
           [] c = "\f" -> 12
           [] c = "\r" -> 13
           [] OTHER -> 31 + CHOOSE i \in 1..Len(Printable) : Printable[i] = c

\* the character of a code that is printable in ASCII or lies beyond ASCII
CharOf(code) ==
    IF code < 127 THEN Printable[code - 31]
    ELSE Escape(code)

\* the small letter of a capital letter of ASCII; float() tells the words
\* inf, infinity and nan by these alone
AsciiLower(s) ==
    [i \in 1..Len(s) |->
        IF Len(s[i]) = 1 /\ Code(s[i]) \in 65..90
        THEN CharOf(Code(s[i]) + 32) ELSE s[i]]

\* the characters with a lower-case letter of their own (the same in
\* Unicode 14.0 and 15.0): <<lo, hi, step, d>> stands for the codes lo, lo + step, ...
\* up to hi, each of which has the letter d codes above it
LowerRuns ==
    {<<65, 90, 1, 32>>, <<192, 214, 1, 32>>, <<216, 222, 1, 32>>,
     <<256, 302, 2, 1>>, <<306, 310, 2, 1>>, <<313, 327, 2, 1>>,
     <<330, 374, 2, 1>>, <<376, 376, 1, -121>>, <<377, 381, 2, 1>>,
     <<385, 385, 1, 210>>, <<386, 388, 2, 1>>, <<390, 390, 1, 206>>,
     <<391, 391, 1, 1>>, <<393, 394, 1, 205>>, <<395, 395, 1, 1>>,
     <<398, 398, 1, 79>>, <<399, 399, 1, 202>>, <<400, 400, 1, 203>>,
     <<401, 401, 1, 1>>, <<403, 403, 1, 205>>, <<404, 404, 1, 207>>,
     <<406, 406, 1, 211>>, <<407, 407, 1, 209>>, <<408, 408, 1, 1>>,
     <<412, 412, 1, 211>>, <<413, 413, 1, 213>>, <<415, 415, 1, 214>>,
     <<416, 420, 2, 1>>, <<422, 422, 1, 218>>, <<423, 423, 1, 1>>,
     <<425, 425, 1, 218>>, <<428, 428, 1, 1>>, <<430, 430, 1, 218>>,
     <<431, 431, 1, 1>>, <<433, 434, 1, 217>>, <<435, 437, 2, 1>>,
     <<439, 439, 1, 219>>, <<440, 440, 1, 1>>, <<444, 444, 1, 1>>,
     <<452, 452, 1, 2>>, <<453, 453, 1, 1>>, <<455, 455, 1, 2>>,
     <<456, 456, 1, 1>>, <<458, 458, 1, 2>>, <<459, 475, 2, 1>>,
     <<478, 494, 2, 1>>, <<497, 497, 1, 2>>, <<498, 500, 2, 1>>,
     <<502, 502, 1, -97>>, <<503, 503, 1, -56>>, <<504, 542, 2, 1>>,
     <<544, 544, 1, -130>>, <<546, 562, 2, 1>>, <<570, 570, 1, 10795>>,
     <<571, 571, 1, 1>>, <<573, 573, 1, -163>>, <<574, 574, 1, 10792>>,
     <<577, 577, 1, 1>>, <<579, 579, 1, -195>>, <<580, 580, 1, 69>>,
     <<581, 581, 1, 71>>, <<582, 590, 2, 1>>, <<880, 882, 2, 1>>,
     <<886, 886, 1, 1>>, <<895, 895, 1, 116>>, <<902, 902, 1, 38>>,
     <<904, 906, 1, 37>>, <<908, 908, 1, 64>>, <<910, 911, 1, 63>>,
     <<913, 929, 1, 32>>, <<931, 939, 1, 32>>, <<975, 975, 1, 8>>,
     <<984, 1006, 2, 1>>, <<1012, 1012, 1, -60>>, <<1015, 1015, 1, 1>>,
     <<1017, 1017, 1, -7>>, <<1018, 1018, 1, 1>>, <<1021, 1023, 1, -130>>,
     <<1024, 1039, 1, 80>>, <<1040, 1071, 1, 32>>, <<1120, 1152, 2, 1>>,
     <<1162, 1214, 2, 1>>, <<1216, 1216, 1, 15>>, <<1217, 1229, 2, 1>>,
     <<1232, 1326, 2, 1>>, <<1329, 1366, 1, 48>>, <<4256, 4293, 1, 7264>>,
     <<4295, 4295, 1, 7264>>, <<4301, 4301, 1, 7264>>,
     <<5024, 5103, 1, 38864>>, <<5104, 5109, 1, 8>>, <<7312, 7354, 1, -3008>>,
     <<7357, 7359, 1, -3008>>, <<7680, 7828, 2, 1>>, <<7838, 7838, 1, -7615>>,
     <<7840, 7934, 2, 1>>, <<7944, 7951, 1, -8>>, <<7960, 7965, 1, -8>>,
     <<7976, 7983, 1, -8>>, <<7992, 7999, 1, -8>>, <<8008, 8013, 1, -8>>,
     <<8025, 8031, 2, -8>>, <<8040, 8047, 1, -8>>, <<8072, 8079, 1, -8>>,
     <<8088, 8095, 1, -8>>, <<8104, 8111, 1, -8>>, <<8120, 8121, 1, -8>>,
     <<8122, 8123, 1, -74>>, <<8124, 8124, 1, -9>>, <<8136, 8139, 1, -86>>,
     <<8140, 8140, 1, -9>>, <<8152, 8153, 1, -8>>, <<8154, 8155, 1, -100>>,
     <<8168, 8169, 1, -8>>, <<8170, 8171, 1, -112>>, <<8172, 8172, 1, -7>>,
     <<8184, 8185, 1, -128>>, <<8186, 8187, 1, -126>>, <<8188, 8188, 1, -9>>,
     <<8486, 8486, 1, -7517>>, <<8490, 8490, 1, -8383>>,
     <<8491, 8491, 1, -8262>>, <<8498, 8498, 1, 28>>, <<8544, 8559, 1, 16>>,
     <<8579, 8579, 1, 1>>, <<9398, 9423, 1, 26>>, <<11264, 11311, 1, 48>>,
     <<11360, 11360, 1, 1>>, <<11362, 11362, 1, -10743>>,
     <<11363, 11363, 1, -3814>>, <<11364, 11364, 1, -10727>>,
     <<11367, 11371, 2, 1>>, <<11373, 11373, 1, -10780>>,
     <<11374, 11374, 1, -10749>>, <<11375, 11375, 1, -10783>>,
     <<11376, 11376, 1, -10782>>, <<11378, 11378, 1, 1>>,
     <<11381, 11381, 1, 1>>, <<11390, 11391, 1, -10815>>,
     <<11392, 11490, 2, 1>>, <<11499, 11501, 2, 1>>, <<11506, 11506, 1, 1>>,
     <<42560, 42604, 2, 1>>, <<42624, 42650, 2, 1>>, <<42786, 42798, 2, 1>>,
     <<42802, 42862, 2, 1>>, <<42873, 42875, 2, 1>>,
     <<42877, 42877, 1, -35332>>, <<42878, 42886, 2, 1>>,
     <<42891, 42891, 1, 1>>, <<42893, 42893, 1, -42280>>,
     <<42896, 42898, 2, 1>>, <<42902, 42920, 2, 1>>,
     <<42922, 42922, 1, -42308>>, <<42923, 42923, 1, -42319>>,
     <<42924, 42924, 1, -42315>>, <<42925, 42925, 1, -42305>>,
     <<42926, 42926, 1, -42308>>, <<42928, 42928, 1, -42258>>,
     <<42929, 42929, 1, -42282>>, <<42930, 42930, 1, -42261>>,
     <<42931, 42931, 1, 928>>, <<42932, 42946, 2, 1>>,
     <<42948, 42948, 1, -48>>, <<42949, 42949, 1, -42307>>,
     <<42950, 42950, 1, -35384>>, <<42951, 42953, 2, 1>>,
     <<42960, 42960, 1, 1>>, <<42966, 42968, 2, 1>>, <<42997, 42997, 1, 1>>,
     <<65313, 65338, 1, 32>>, <<66560, 66599, 1, 40>>,
     <<66736, 66771, 1, 40>>, <<66928, 66964, 2, 39>>,
     <<66929, 66938, 1, 39>>, <<66941, 66954, 1, 39>>,
     <<66957, 66962, 1, 39>>, <<66965, 66965, 1, 39>>,
     <<68736, 68786, 1, 64>>, <<71840, 71871, 1, 32>>,
     <<93760, 93791, 1, 32>>, <<125184, 125217, 1, 34>>}

\* the characters that are case-ignorable in Unicode 14.0: <<lo, hi>>
\* stands for the codes from lo to hi
CaseIgnorableRanges14 ==
    {<<39, 39>>, <<46, 46>>, <<58, 58>>, <<94, 94>>, <<96, 96>>, <<168, 168>>,
     <<173, 173>>, <<175, 175>>, <<180, 180>>, <<183, 184>>, <<688, 879>>,
     <<884, 885>>, <<890, 890>>, <<900, 901>>, <<903, 903>>, <<1155, 1161>>,
     <<1369, 1369>>, <<1375, 1375>>, <<1425, 1469>>, <<1471, 1471>>,
     <<1473, 1474>>, <<1476, 1477>>, <<1479, 1479>>, <<1524, 1524>>,
     <<1536, 1541>>, <<1552, 1562>>, <<1564, 1564>>, <<1600, 1600>>,
     <<1611, 1631>>, <<1648, 1648>>, <<1750, 1757>>, <<1759, 1768>>,
     <<1770, 1773>>, <<1807, 1807>>, <<1809, 1809>>, <<1840, 1866>>,
     <<1958, 1968>>, <<2027, 2037>>, <<2042, 2042>>, <<2045, 2045>>,
     <<2070, 2093>>, <<2137, 2139>>, <<2184, 2184>>, <<2192, 2193>>,
     <<2200, 2207>>, <<2249, 2306>>, <<2362, 2362>>, <<2364, 2364>>,
     <<2369, 2376>>, <<2381, 2381>>, <<2385, 2391>>, <<2402, 2403>>,
     <<2417, 2417>>, <<2433, 2433>>, <<2492, 2492>>, <<2497, 2500>>,
     <<2509, 2509>>, <<2530, 2531>>, <<2558, 2558>>, <<2561, 2562>>,
     <<2620, 2620>>, <<2625, 2626>>, <<2631, 2632>>, <<2635, 2637>>,
     <<2641, 2641>>, <<2672, 2673>>, <<2677, 2677>>, <<2689, 2690>>,
     <<2748, 2748>>, <<2753, 2757>>, <<2759, 2760>>, <<2765, 2765>>,
     <<2786, 2787>>, <<2810, 2815>>, <<2817, 2817>>, <<2876, 2876>>,
     <<2879, 2879>>, <<2881, 2884>>, <<2893, 2893>>, <<2901, 2902>>,
     <<2914, 2915>>, <<2946, 2946>>, <<3008, 3008>>, <<3021, 3021>>,
     <<3072, 3072>>, <<3076, 3076>>, <<3132, 3132>>, <<3134, 3136>>,
     <<3142, 3144>>, <<3146, 3149>>, <<3157, 3158>>, <<3170, 3171>>,
     <<3201, 3201>>, <<3260, 3260>>, <<3263, 3263>>, <<3270, 3270>>,
     <<3276, 3277>>, <<3298, 3299>>, <<3328, 3329>>, <<3387, 3388>>,
     <<3393, 3396>>, <<3405, 3405>>, <<3426, 3427>>, <<3457, 3457>>,
     <<3530, 3530>>, <<3538, 3540>>, <<3542, 3542>>, <<3633, 3633>>,
     <<3636, 3642>>, <<3654, 3662>>, <<3761, 3761>>, <<3764, 3772>>,
     <<3782, 3782>>, <<3784, 3789>>, <<3864, 3865>>, <<3893, 3893>>,
     <<3895, 3895>>, <<3897, 3897>>, <<3953, 3966>>, <<3968, 3972>>,
     <<3974, 3975>>, <<3981, 3991>>, <<3993, 4028>>, <<4038, 4038>>,
     <<4141, 4144>>, <<4146, 4151>>, <<4153, 4154>>, <<4157, 4158>>,
     <<4184, 4185>>, <<4190, 4192>>, <<4209, 4212>>, <<4226, 4226>>,
     <<4229, 4230>>, <<4237, 4237>>, <<4253, 4253>>, <<4348, 4348>>,
     <<4957, 4959>>, <<5906, 5908>>, <<5938, 5939>>, <<5970, 5971>>,
     <<6002, 6003>>, <<6068, 6069>>, <<6071, 6077>>, <<6086, 6086>>,
     <<6089, 6099>>, <<6103, 6103>>, <<6109, 6109>>, <<6155, 6159>>,
     <<6211, 6211>>, <<6277, 6278>>, <<6313, 6313>>, <<6432, 6434>>,
     <<6439, 6440>>, <<6450, 6450>>, <<6457, 6459>>, <<6679, 6680>>,
     <<6683, 6683>>, <<6742, 6742>>, <<6744, 6750>>, <<6752, 6752>>,
     <<6754, 6754>>, <<6757, 6764>>, <<6771, 6780>>, <<6783, 6783>>,
     <<6823, 6823>>, <<6832, 6862>>, <<6912, 6915>>, <<6964, 6964>>,
     <<6966, 6970>>, <<6972, 6972>>, <<6978, 6978>>, <<7019, 7027>>,
     <<7040, 7041>>, <<7074, 7077>>, <<7080, 7081>>, <<7083, 7085>>,
     <<7142, 7142>>, <<7144, 7145>>, <<7149, 7149>>, <<7151, 7153>>,
     <<7212, 7219>>, <<7222, 7223>>, <<7288, 7293>>, <<7376, 7378>>,
     <<7380, 7392>>, <<7394, 7400>>, <<7405, 7405>>, <<7412, 7412>>,
     <<7416, 7417>>, <<7468, 7530>>, <<7544, 7544>>, <<7579, 7679>>,
     <<8125, 8125>>, <<8127, 8129>>, <<8141, 8143>>, <<8157, 8159>>,
     <<8173, 8175>>, <<8189, 8190>>, <<8203, 8207>>, <<8216, 8217>>,
     <<8228, 8228>>, <<8231, 8231>>, <<8234, 8238>>, <<8288, 8292>>,
     <<8294, 8303>>, <<8305, 8305>>, <<8319, 8319>>, <<8336, 8348>>,
     <<8400, 8432>>, <<11388, 11389>>, <<11503, 11505>>, <<11631, 11631>>,
     <<11647, 11647>>, <<11744, 11775>>, <<11823, 11823>>, <<12293, 12293>>,
     <<12330, 12333>>, <<12337, 12341>>, <<12347, 12347>>, <<12441, 12446>>,
     <<12540, 12542>>, <<40981, 40981>>, <<42232, 42237>>, <<42508, 42508>>,
     <<42607, 42610>>, <<42612, 42621>>, <<42623, 42623>>, <<42652, 42655>>,
     <<42736, 42737>>, <<42752, 42785>>, <<42864, 42864>>, <<42888, 42890>>,
     <<42994, 42996>>, <<43000, 43001>>, <<43010, 43010>>, <<43014, 43014>>,
     <<43019, 43019>>, <<43045, 43046>>, <<43052, 43052>>, <<43204, 43205>>,
     <<43232, 43249>>, <<43263, 43263>>, <<43302, 43309>>, <<43335, 43345>>,
     <<43392, 43394>>, <<43443, 43443>>, <<43446, 43449>>, <<43452, 43453>>,
     <<43471, 43471>>, <<43493, 43494>>, <<43561, 43566>>, <<43569, 43570>>,
     <<43573, 43574>>, <<43587, 43587>>, <<43596, 43596>>, <<43632, 43632>>,
     <<43644, 43644>>, <<43696, 43696>>, <<43698, 43700>>, <<43703, 43704>>,
     <<43710, 43711>>, <<43713, 43713>>, <<43741, 43741>>, <<43756, 43757>>,
     <<43763, 43764>>, <<43766, 43766>>, <<43867, 43871>>, <<43881, 43883>>,
     <<44005, 44005>>, <<44008, 44008>>, <<44013, 44013>>, <<64286, 64286>>,
     <<64434, 64450>>, <<65024, 65039>>, <<65043, 65043>>, <<65056, 65071>>,
     <<65106, 65106>>, <<65109, 65109>>, <<65279, 65279>>, <<65287, 65287>>,
     <<65294, 65294>>, <<65306, 65306>>, <<65342, 65342>>, <<65344, 65344>>,
     <<65392, 65392>>, <<65438, 65439>>, <<65507, 65507>>, <<65529, 65531>>,
     <<66045, 66045>>, <<66272, 66272>>, <<66422, 66426>>, <<67456, 67461>>,
     <<67463, 67504>>, <<67506, 67514>>, <<68097, 68099>>, <<68101, 68102>>,
     <<68108, 68111>>, <<68152, 68154>>, <<68159, 68159>>, <<68325, 68326>>,
     <<68900, 68903>>, <<69291, 69292>>, <<69446, 69456>>, <<69506, 69509>>,
     <<69633, 69633>>, <<69688, 69702>>, <<69744, 69744>>, <<69747, 69748>>,
     <<69759, 69761>>, <<69811, 69814>>, <<69817, 69818>>, <<69821, 69821>>,
     <<69826, 69826>>, <<69837, 69837>>, <<69888, 69890>>, <<69927, 69931>>,
     <<69933, 69940>>, <<70003, 70003>>, <<70016, 70017>>, <<70070, 70078>>,
     <<70089, 70092>>, <<70095, 70095>>, <<70191, 70193>>, <<70196, 70196>>,
     <<70198, 70199>>, <<70206, 70206>>, <<70367, 70367>>, <<70371, 70378>>,
     <<70400, 70401>>, <<70459, 70460>>, <<70464, 70464>>, <<70502, 70508>>,
     <<70512, 70516>>, <<70712, 70719>>, <<70722, 70724>>, <<70726, 70726>>,
     <<70750, 70750>>, <<70835, 70840>>, <<70842, 70842>>, <<70847, 70848>>,
     <<70850, 70851>>, <<71090, 71093>>, <<71100, 71101>>, <<71103, 71104>>,
     <<71132, 71133>>, <<71219, 71226>>, <<71229, 71229>>, <<71231, 71232>>,
     <<71339, 71339>>, <<71341, 71341>>, <<71344, 71349>>, <<71351, 71351>>,
     <<71453, 71455>>, <<71458, 71461>>, <<71463, 71467>>, <<71727, 71735>>,
     <<71737, 71738>>, <<71995, 71996>>, <<71998, 71998>>, <<72003, 72003>>,
     <<72148, 72151>>, <<72154, 72155>>, <<72160, 72160>>, <<72193, 72202>>,
     <<72243, 72248>>, <<72251, 72254>>, <<72263, 72263>>, <<72273, 72278>>,
     <<72281, 72283>>, <<72330, 72342>>, <<72344, 72345>>, <<72752, 72758>>,
     <<72760, 72765>>, <<72767, 72767>>, <<72850, 72871>>, <<72874, 72880>>,
     <<72882, 72883>>, <<72885, 72886>>, <<73009, 73014>>, <<73018, 73018>>,
     <<73020, 73021>>, <<73023, 73029>>, <<73031, 73031>>, <<73104, 73105>>,
     <<73109, 73109>>, <<73111, 73111>>, <<73459, 73460>>, <<78896, 78904>>,
     <<92912, 92916>>, <<92976, 92982>>, <<92992, 92995>>, <<94031, 94031>>,
     <<94095, 94111>>, <<94176, 94177>>, <<94179, 94180>>, <<110576, 110579>>,
     <<110581, 110587>>, <<110589, 110590>>, <<113821, 113822>>,
     <<113824, 113827>>, <<118528, 118573>>, <<118576, 118598>>,
     <<119143, 119145>>, <<119155, 119170>>, <<119173, 119179>>,
     <<119210, 119213>>, <<119362, 119364>>, <<121344, 121398>>,
     <<121403, 121452>>, <<121461, 121461>>, <<121476, 121476>>,
     <<121499, 121503>>, <<121505, 121519>>, <<122880, 122886>>,
     <<122888, 122904>>, <<122907, 122913>>, <<122915, 122916>>,
     <<122918, 122922>>, <<123184, 123197>>, <<123566, 123566>>,
     <<123628, 123631>>, <<125136, 125142>>, <<125252, 125259>>,
     <<127995, 127999>>, <<917505, 917505>>, <<917536, 917631>>,
     <<917760, 917999>>}

\* the case-ignorable characters Unicode 15.0 adds
CaseIgnorableRanges15 ==
    {<<3790, 3790>>, <<69373, 69375>>, <<70209, 70209>>, <<73472, 73473>>,
     <<73526, 73530>>, <<73536, 73536>>, <<73538, 73538>>, <<78905, 78912>>,
     <<78919, 78933>>, <<122928, 122989>>, <<123023, 123023>>,
     <<124139, 124143>>}

CaseIgnorableRanges ==
    [py \in Pythons |->
        IF py = "3.11" THEN CaseIgnorableRanges14
        ELSE CaseIgnorableRanges14 \cup CaseIgnorableRanges15]

\* the characters that are cased and not case-ignorable in Unicode 14.0
CasedRanges14 ==
    {<<65, 90>>, <<97, 122>>, <<170, 170>>, <<181, 181>>, <<186, 186>>,
     <<192, 214>>, <<216, 246>>, <<248, 442>>, <<444, 447>>, <<452, 659>>,
     <<661, 687>>, <<880, 883>>, <<886, 887>>, <<891, 893>>, <<895, 895>>,
     <<902, 902>>, <<904, 906>>, <<908, 908>>, <<910, 929>>, <<931, 1013>>,
     <<1015, 1153>>, <<1162, 1327>>, <<1329, 1366>>, <<1376, 1416>>,
     <<4256, 4293>>, <<4295, 4295>>, <<4301, 4301>>, <<4304, 4346>>,
     <<4349, 4351>>, <<5024, 5109>>, <<5112, 5117>>, <<7296, 7304>>,
     <<7312, 7354>>, <<7357, 7359>>, <<7424, 7467>>, <<7531, 7543>>,
     <<7545, 7578>>, <<7680, 7957>>, <<7960, 7965>>, <<7968, 8005>>,
     <<8008, 8013>>, <<8016, 8023>>, <<8025, 8025>>, <<8027, 8027>>,
     <<8029, 8029>>, <<8031, 8061>>, <<8064, 8116>>, <<8118, 8124>>,
     <<8126, 8126>>, <<8130, 8132>>, <<8134, 8140>>, <<8144, 8147>>,
     <<8150, 8155>>, <<8160, 8172>>, <<8178, 8180>>, <<8182, 8188>>,
     <<8450, 8450>>, <<8455, 8455>>, <<8458, 8467>>, <<8469, 8469>>,
     <<8473, 8477>>, <<8484, 8484>>, <<8486, 8486>>, <<8488, 8488>>,
     <<8490, 8493>>, <<8495, 8500>>, <<8505, 8505>>, <<8508, 8511>>,
     <<8517, 8521>>, <<8526, 8526>>, <<8544, 8575>>, <<8579, 8580>>,
     <<9398, 9449>>, <<11264, 11387>>, <<11390, 11492>>, <<11499, 11502>>,
     <<11506, 11507>>, <<11520, 11557>>, <<11559, 11559>>, <<11565, 11565>>,
     <<42560, 42605>>, <<42624, 42651>>, <<42786, 42863>>, <<42865, 42887>>,
     <<42891, 42894>>, <<42896, 42954>>, <<42960, 42961>>, <<42963, 42963>>,
     <<42965, 42969>>, <<42997, 42998>>, <<43002, 43002>>, <<43824, 43866>>,
     <<43872, 43880>>, <<43888, 43967>>, <<64256, 64262>>, <<64275, 64279>>,
     <<65313, 65338>>, <<65345, 65370>>, <<66560, 66639>>, <<66736, 66771>>,
     <<66776, 66811>>, <<66928, 66938>>, <<66940, 66954>>, <<66956, 66962>>,
     <<66964, 66965>>, <<66967, 66977>>, <<66979, 66993>>, <<66995, 67001>>,
     <<67003, 67004>>, <<68736, 68786>>, <<68800, 68850>>, <<71840, 71903>>,
     <<93760, 93823>>, <<119808, 119892>>, <<119894, 119964>>,
     <<119966, 119967>>, <<119970, 119970>>, <<119973, 119974>>,
     <<119977, 119980>>, <<119982, 119993>>, <<119995, 119995>>,
     <<119997, 120003>>, <<120005, 120069>>, <<120071, 120074>>,
     <<120077, 120084>>, <<120086, 120092>>, <<120094, 120121>>,
     <<120123, 120126>>, <<120128, 120132>>, <<120134, 120134>>,
     <<120138, 120144>>, <<120146, 120485>>, <<120488, 120512>>,
     <<120514, 120538>>, <<120540, 120570>>, <<120572, 120596>>,
     <<120598, 120628>>, <<120630, 120654>>, <<120656, 120686>>,
     <<120688, 120712>>, <<120714, 120744>>, <<120746, 120770>>,
     <<120772, 120779>>, <<122624, 122633>>, <<122635, 122654>>,
     <<125184, 125251>>, <<127280, 127305>>, <<127312, 127337>>,
     <<127344, 127369>>}

\* Unicode 15.0 adds six cased letters
CasedRanges ==
    [py \in Pythons |->
        IF py = "3.11" THEN CasedRanges14
        ELSE CasedRanges14 \cup {<<122661, 122666>>}]

InRanges(code, ranges) == \E r \in ranges : r[1] <= code /\ code <= r[2]

IsCaseIgnorable(c, py) == InRanges(Code(c), CaseIgnorableRanges[py])

IsCased(c, py) == InRanges(Code(c), CasedRanges[py])

\* the code of the lower-case letter of a code, the code itself where it
\* has none
LowerCode(code) ==
    LET hits == {r \in LowerRuns :
                    r[1] <= code /\ code <= r[2] /\ (code - r[1]) % r[3] = 0}
    IN  IF hits = {} THEN code ELSE code + (CHOOSE r \in hits : TRUE)[4]

\* str.lower() of one character that lowers to one character
LowerChar(c) ==
    IF Len(c) = 1
    THEN (IF Code(c) \in 65..90 THEN CharOf(Code(c) + 32) ELSE c)
    ELSE (IF LowerCode(Code(c)) = Code(c) THEN c
          ELSE CharOf(LowerCode(Code(c))))

\* the capital sigma at position i of s is the last letter of a word: a
\* cased character stands before it, case-ignorable ones left aside, and
\* none after it
BeforeSigma(s, i, py) ==
    LET solid == {j \in 1..(i - 1) : ~IsCaseIgnorable(s[j], py)}
    IN  solid # {} /\ IsCased(s[SetMax(solid)], py)

AfterSigma(s, i, py) ==
    LET solid == {j \in (i + 1)..Len(s) : ~IsCaseIgnorable(s[j], py)}
    IN  solid # {} /\ IsCased(s[SetMin(solid)], py)

FinalSigma(s, i, py) == BeforeSigma(s, i, py) /\ ~AfterSigma(s, i, py)

\* what str.lower() makes of the character at position i of s: the capital
\* I with a dot becomes an i and a combining dot, the capital sigma the
\* final or the common small sigma
LowerAt(s, i, py) ==
    IF s[i] = "\\u0130" THEN <<"i", "\\u0307">>
    ELSE IF s[i] = "\\u03a3"
    THEN (IF FinalSigma(s, i, py) THEN <<"\\u03c2">> ELSE <<"\\u03c3">>)
    ELSE <<LowerChar(s[i])>>

\* the texts ts[lo], ..., ts[hi] one after the other
RECURSIVE Concat(_, _, _)
Concat(ts, lo, hi) ==
    IF lo > hi THEN <<>>
    ELSE IF lo = hi THEN ts[lo]
    ELSE Concat(ts, lo, (lo + hi) \div 2) \o Concat(ts, ((lo + hi) \div 2) + 1, hi)

\* str.lower()
LowerText(s, py) ==
    Concat([i \in 1..Len(s) |-> LowerAt(s, i, py)], 1, Len(s))

\* the exponent of a float text: one of more than nine digits after its
\* leading zeros counts as +-MaxExponent, which lies beyond every float
\* whatever the digits before it are
MaxExponent == 1100000000

ExponentOf(t) ==
    IF Len(t.digits) > 9 THEN (IF t.neg THEN -MaxExponent ELSE MaxExponent)
    ELSE IF t.neg THEN -DigitsVal(t.digits) ELSE DigitsVal(t.digits)

ExponentVal(tok, py) == ExponentOf(SignedDigits(tok, py))

\* the double nearest to (-1)^neg * digits * 10^e10, digits without leading
\* zeros: beyond the largest double it is an infinity, and below half the
\* smallest one it is zero
DecimalValue(neg, n, e10) ==
    IF e10 >= 0 THEN RoundTo(neg, BigMul(n, BigPow5(e10)), e10, Double)
    ELSE RoundRat(neg, n, BigPow5(-e10), e10, Double)

DecimalToDouble(neg, digits, e10) ==
    IF digits = <<>> THEN FZero(neg)
    ELSE IF Len(digits) - 1 + e10 >= 309 THEN FInf(neg)
    ELSE IF Len(digits) + e10 <= -324 THEN FZero(neg)
    ELSE DecimalValue(neg, BigFromDigits(digits), e10)

\* the parts of a stripped text t read as a number by float():
\* [sign] (inf | infinity | nan | digits [. [digits]] [e [sign] digits]),
\* e the position of the exponent letter
FloatParts(t, e) ==
    [sign |-> SignOf(t),
     word |-> AsciiLower(StripSign(t)),
     mant |-> IF e = 0 THEN StripSign(t) ELSE SubSeq(StripSign(t), 1, e - 1),
     expo |-> IF e = 0 THEN <<"0">>
              ELSE SubSeq(StripSign(t), e + 1, Len(StripSign(t)))]

\* the same with the digits before and after the point of the mantissa
MantissaParts(p, dot) ==
    [sign |-> p.sign, word |-> p.word, expo |-> p.expo,
     ip |-> IF dot = 0 THEN p.mant ELSE SubSeq(p.mant, 1, dot - 1),
     fp |-> IF dot = 0 THEN <<>> ELSE SubSeq(p.mant, dot + 1, Len(p.mant))]

PartsOfMantissa(p) == MantissaParts(p, FirstIn(p.mant, {"."}))

PartsOfStripped(t) ==
    PartsOfMantissa(FloatParts(t, FirstIn(StripSign(t), {"e", "E"})))

\* whitespace around the number is dropped
FloatSyntax(tok) == PartsOfStripped(Strip(tok))

WellFormedNumber(m, py) ==
    /\ m.ip = <<>> \/ DigitPart(m.ip, py)
    /\ m.fp = <<>> \/ DigitPart(m.fp, py)
    /\ Len(m.ip) + Len(m.fp) >= 1
    /\ SignedDigits(m.expo, py).ok

NumberValue(m, py) ==
    DecimalToDouble(m.sign = -1,
                    Significant(AsciiDigits(DropUnderscores(m.ip)
                                            \o DropUnderscores(m.fp), py)),
                    ExponentVal(m.expo, py) - Len(DropUnderscores(m.fp)))

InfinityWords ==
    {<<"i", "n", "f">>, <<"i", "n", "f", "i", "n", "i", "t", "y">>}

\* float() reads the text: it does not raise ValueError
IsFloat(m, py) ==
    \/ m.word \in InfinityWords
    \/ m.word = <<"n", "a", "n">>
    \/ WellFormedNumber(m, py)

FloatValue(m, py) ==
    IF m.word \in InfinityWords THEN FInf(m.sign = -1)
    ELSE IF m.word = <<"n", "a", "n">> THEN FNaN
    ELSE IF WellFormedNumber(m, py) THEN NumberValue(m, py)
    ELSE FZero(FALSE)

FloatOfSyntax(m, py) == [ok |-> IsFloat(m, py), val |-> FloatValue(m, py)]

\* float(text)
FloatText(tok, py) == FloatOfSyntax(FloatSyntax(tok), py)

IsFloatText(tok, py) == IsFloat(FloatSyntax(tok), py)

\* np.float64(text) (bits = 64) is float(text); np.float32(text)
\* (bits = 32) is that double converted to single precision
FloatOfWidth(f, bits) ==
    [ok |-> f.ok, val |-> IF bits = 32 THEN Cast(f.val, Single) ELSE f.val]

ParseFloat(tok, bits, py) == FloatOfWidth(FloatText(tok, py), bits)

\* the precision in which a Python number and an np.float32 are multiplied
\* or added: the numpy that raises on overflow keeps single precision, the
\* one that wraps computes in double precision
Precision(np) == IF np = "raises" THEN Single ELSE Double

(***************************************************************************)
(* Transport of the oscilloscope: what the binary and ASCII data queries   *)
(* return for the bytes/codes the instrument holds.                        *)
(***************************************************************************)
\* one 8-bit element per byte: datatype 'b' (signed) or 'B' (unsigned)
Unpack8(w, signed) ==
    [i \in 1..Len(w) |-> IF signed /\ w[i] >= 128 THEN w[i] - 256 ELSE w[i]]

\* one 16-bit element per byte pair: datatype 'h' (signed) or 'H' (unsigned);
\* an odd trailing byte makes no element
Unpack16(w, signed, big) ==
    [i \in 1..(Len(w) \div 2) |->
        LET a == w[2 * i - 1]
            b == w[2 * i]
            u == IF big THEN 256 * a + b ELSE 256 * b + a
        IN  IF signed /\ u >= 32768 THEN u - 65536 ELSE u]

\* query_binary_values("WAVeform:DATA?", datatype, is_big_endian)
query_binary_values(w, datatype, is_big_endian) ==
    CASE datatype = "b" -> Unpack8(w, TRUE)
      [] datatype = "B" -> Unpack8(w, FALSE)
      [] datatype = "h" -> Unpack16(w, TRUE, is_big_endian)
      [] datatype = "H" -> Unpack16(w, FALSE, is_big_endian)

\* query_ascii_values("WAVeform:DATA?"): the codes, sent as numbers in text
query_ascii_values(w) == w

(***************************************************************************)
(* Scope.query_wf                                                          *)
(***************************************************************************)
IntFields == {1, 2, 3, 4, 7, 10}

\* np.int16 for format and type, np.int32 for the other integers;
\* np.float64 for the x axis, np.float32 for the y axis
FieldBits(k) == IF k \in {1, 2} THEN 16
                ELSE IF k \in {5, 6} THEN 64
                ELSE 32

NoDict == [format |-> 0, type |-> 0, points |-> 0, count |-> 0,
           x_increment |-> FZero(FALSE), x_origin |-> FZero(FALSE),
           x_reference |-> 0, y_increment |-> FZero(FALSE),
           y_origin |-> FZero(FALSE), y_reference |-> 0]

\* the exception raised by the k-th entry of the preamble_dict literal
FieldError(preamble_list, k, np, py) ==
    IF k > Len(preamble_list) THEN "IndexError"
    ELSE IF k \in IntFields
         THEN ParseInt(preamble_list[k], FieldBits(k), np, py).error
         ELSE (IF IsFloatText(preamble_list[k], py) THEN "none"
               ELSE "ValueError")

\* the entries are evaluated in order: the first failing one raises
\* (errs[k] is the exception of the k-th entry)
FirstError(errs) ==
    LET bad == {k \in 1..10 : errs[k] # "none"}
    IN  IF bad = {} THEN "none"
        ELSE errs[CHOOSE k \in bad : \A j \in bad : k <= j]

DictError(preamble_list, np, py) ==
    FirstError([k \in 1..10 |-> FieldError(preamble_list, k, np, py)])

\* the dictionary of the ten converted entries
DictOf(f) ==
    [format |-> f[1], type |-> f[2], points |-> f[3], count |-> f[4],
     x_increment |-> f[5], x_origin |-> f[6], x_reference |-> f[7],
     y_increment |-> f[8], y_origin |-> f[9], y_reference |-> f[10]]

\* the preamble_dict literal: entry k is converted at the width FieldBits(k)
PreambleDict(preamble_list, np, py) ==
    DictOf([k \in 1..10 |->
              IF k \in IntFields
              THEN ParseInt(preamble_list[k], FieldBits(k), np, py).val
              ELSE ParseFloat(preamble_list[k], FieldBits(k), py).val])

\* mutant of DataType: the ASCII format reads the byte-order hint
DataTypeAsciiByOrder(format, bo, us) ==
    IF format \in {0, 1}
    THEN IF format = 0 THEN (IF us = "OFF" THEN "b" ELSE "B")
         ELSE (IF us = "OFF" THEN "h" ELSE "H")
    ELSE IF format = 4 THEN (IF bo = "LSBF" THEN "h" ELSE "ascii")
    ELSE "none"

\* mutant of DataType: the signedness hint is not read
DataTypeSignedOnly(format, bo, us) ==
    IF format = 0 THEN "b"
    ELSE IF format = 1 THEN "h"
    ELSE IF format = 4 THEN "ascii"
    ELSE "none"

\* the element type of the data query chosen by lines 311-320:
\* "unbound" when a hint that is read was never assigned, "none" when no
\* branch matches the format
DataType(format, bo, us) ==
    LET boKnown == bo \in {"MSBF", "LSBF"}
        usKnown == us \in {"OFF", "ON"}
    IN  IF format \in {0, 1}
        THEN IF ~usKnown \/ ~boKnown THEN "unbound"
             ELSE IF format = 0 THEN (IF us = "OFF" THEN "b" ELSE "B")
             ELSE (IF us = "OFF" THEN "h" ELSE "H")
        ELSE IF format = 4 THEN "ascii"
        ELSE "none"

Failure(kind, io) ==
    [status |-> "error", error |-> kind, preamble_dict |-> NoDict,
     time |-> <<>>, wfm |-> <<>>, io |-> io]

\* (n * increment) + origin for a Python number n, computed in the format
Axis(n, increment, origin, fmt) ==
    FAdd(FMul(Cast(FloatOfInt(n), fmt), increment, fmt), origin, fmt)

\* mutant of TimeAxis: the index starts at 1 instead of 0
TimeAxisFromOne(d) ==
    IF d.points <= 0 THEN <<>>
    ELSE [t \in 1..d.points |->
             Axis(t, d.x_increment, d.x_origin, Double)]

\* time.append((t * x_increment) + x_origin) for t in range(points):
\* x_increment and x_origin are np.float64
TimeAxis(d) ==
    IF d.points <= 0 THEN <<>>
    ELSE [t \in 1..d.points |->
             Axis(t - 1, d.x_increment, d.x_origin, Double)]

\* mutant of Voltages: the loop stops after points samples
VoltagesUpToPoints(data, d, np) ==
    [i \in 1..(IF Len(data) < d.points THEN Len(data) ELSE d.points) |->
        Axis(data[i], d.y_increment, d.y_origin, Precision(np))]

\* wfm.append((d * y_increment) + y_origin) for d in data: d is a Python
\* number, y_increment and y_origin are np.float32
Voltages(data, d, np) ==
    [i \in 1..Len(data) |->
        Axis(data[i], d.y_increment, d.y_origin, Precision(np))]

\* Scope.query_wf(byte_order, unsigned) on the numpy np, the oscilloscope
\* answering the preamble query with pre and holding the bytes w
query_wf(pre, w, bo, us, np, py) ==
    LET q1 == <<[cmd |-> ":WAVeform:PREamble?", datatype |-> "text"]>>
        \* lines 322-327: the two axes built from the data read
        Built(preamble_dict, dt, data) ==
            [status |-> "ok", error |-> "none",
             preamble_dict |-> preamble_dict,
             time |-> TimeAxis(preamble_dict),
             wfm |-> Voltages(data, preamble_dict, np),
             io |-> q1 \o <<[cmd |-> "WAVeform:DATA?", datatype |-> dt]>>]
        \* lines 311-321: the data query in the element type dt
        Read(preamble_dict, dt) ==
            IF dt \in {"unbound", "none"}
            THEN Failure("UnboundLocalError", q1)
            ELSE Built(preamble_dict, dt,
                       IF dt = "ascii" THEN query_ascii_values(w)
                       ELSE query_binary_values(w, dt, bo = "MSBF"))
        Typed(preamble_dict) ==
            Read(preamble_dict, DataType(preamble_dict.format, bo, us))
        \* lines 291-302: the preamble_dict literal, err its first failure
        Parsed(preamble_list, err) ==
            IF err # "none" THEN Failure(err, q1)
            ELSE Typed(PreambleDict(preamble_list, np, py))
        Listed(preamble_list) ==
            Parsed(preamble_list, DictError(preamble_list, np, py))
        \* lines 288-290: the first whitespace-separated word, split at commas
        Split(preamble1) ==
            IF preamble1 = <<>> THEN Failure("IndexError", q1)
            ELSE Listed(SplitComma(preamble1[1]))
    IN  Split(SplitWS(pre))

\* what a call can do, over the numpy builds
QueryWfOutcomes(pre, w, bo, us, py) ==
    {query_wf(pre, w, bo, us, np, py) : np \in NumpyBuilds}

(***************************************************************************)
(* Inputs of the decoder: what the oscilloscope may answer.                *)
(***************************************************************************)
RECURSIVE IntToken(_)
IntToken(n) ==
    IF n < 10 THEN <<Digits[n + 1]>>
    ELSE Append(IntToken(n \div 10), Digits[(n % 10) + 1])

RECURSIVE JoinComma(_)
JoinComma(fs) ==
    IF Len(fs) = 0 THEN <<>>
    ELSE IF Len(fs) = 1 THEN fs[1]
    ELSE fs[1] \o <<",">> \o JoinComma(Tail(fs))

FormatToks == {<<"0">>, <<"1">>, <<"2">>, <<"4">>}

PointsToks == {IntToken(n) : n \in 0..MaxPoints} \cup {<<"-", "1">>}

\* the two axes of an answer:
\* << <<x_increment, x_origin>>, <<y_increment, y_origin>> >>
Axes == {<< << <<"1", "e", "-", "6">>, <<"0">> >>,
            << <<"1", ".", "0">>, <<"0", ".", "0">> >> >>,
         << << <<"2">>, <<"-", "1">> >>,
            << <<"0", ".", "5">>, <<"1">> >> >>}

Shapes == {"nine", "ten", "tenNL", "eleven", "junk"}

PreambleText(shape, f, p, xa, ya) ==
    LET cnt == IF shape = "junk" THEN <<"x">> ELSE <<"1">>
        ten == <<f, <<"0">>, p, cnt, xa[1], xa[2], <<"0">>, ya[1], ya[2], <<"0">> >>
    IN  CASE shape = "nine" -> JoinComma(SubSeq(ten, 1, 9))
          [] shape = "eleven" -> JoinComma(Append(ten, <<"0">>))
          [] shape = "tenNL" -> JoinComma(ten) \o <<"\n">>
          [] shape = "tenVT" -> JoinComma(ten) \o <<"\\x0b", "x">>
          [] OTHER -> JoinComma(ten)

\* a point count beyond 32 bits that is 2 modulo 2^32
WidePoints == <<"4", "2", "9", "4", "9", "6", "7", "2", "9", "8">>

\* a point count of more digits than int() reads
LongPoints == [i \in 1..(MaxStrDigits + 1) |-> "0"]

\* an origin with leading zeros in its exponent
LongExponent == <<"1", "e", "0", "0", "0", "0", "0", "0", "0", "0", "0", "1">>

\* answers at the edges of the number types: a format beyond 16 bits (one
\* that is 0 modulo 2^16, one that is not), a point count beyond 32 bits,
\* one of too many digits, digits grouped by an underscore, an infinite
\* increment, an exponent with leading zeros, y values that single
\* precision rounds (large and small ones), a format in fullwidth digits,
\* one in the digits of Kawi (digits from Unicode 15.0 on), a vertical tab
\* after the record
EdgePreambles ==
    LET x == << <<"2">>, <<"-", "1">> >>
        y == << <<"0", ".", "5">>, <<"1">> >>
    IN  {PreambleText("ten", <<"6", "5", "5", "3", "6">>, <<"2">>, x, y),
         PreambleText("ten", <<"0">>, WidePoints, x, y),
         PreambleText("ten", <<"0">>, LongPoints, x, y),
         PreambleText("ten", <<"0">>, <<"2">>, << <<"2">>, LongExponent >>, y),
         PreambleText("ten", <<"4", "0", "0", "0", "0">>, <<"2">>, x, y),
         PreambleText("ten", <<"0">>, <<"0", "_", "2">>, x, y),
         PreambleText("ten", <<"0">>, <<"2">>, << <<"i", "n", "f">>, <<"0">> >>, y),
         PreambleText("ten", <<"4">>, <<"2">>, x,
                      << <<"1", ".", "0", "0", "0", "0", "0", "0", "0", "1">>,
                         <<"1", "6", "7", "7", "7", "2", "1", "6">> >>),
         PreambleText("ten", <<"0">>, <<"2">>, x,
                      << <<"0", ".", "0", "0", "1">>, <<"0">> >>),
         PreambleText("ten", <<"0">>, <<"1">>, x,
                      << <<"0", ".", "0", "0", "7", "8", "1", "2", "5">>,
                         <<"0", ".", "0", "0", "7", "8", "1", "2", "4">> >>),
         PreambleText("ten", <<"\\uff11">>, <<"2">>, x, y),
         PreambleText("ten", <<"\\U00011f51">>, <<"2">>, x, y),
         PreambleText("tenVT", <<"1">>, <<"2">>, x, y)}

PreambleTexts ==
    {PreambleText(sh, f, p, ax[1], ax[2]) :
        sh \in Shapes, f \in FormatToks, p \in PointsToks, ax \in Axes}
    \cup EdgePreambles

ByteVals == {1, 255}

Wires == UNION {[1..n -> ByteVals] : n \in 0..MaxWire}

NoResult == [status |-> "none", error |-> "none", preamble_dict |-> NoDict,
             time |-> <<>>, wfm |-> <<>>, io |-> <<>>]

NoDense == [status |-> "none", error |-> "none", counts |-> <<>>,
            y_dense |-> <<>>]

DecodeIdle ==
    /\ preamble = <<>> /\ wire = <<>>
    /\ byte_order = "MSBF" /\ unsigned = "OFF"
    /\ qpc = "idle" /\ qres = NoResult /\ osc_io = <<>>

DensifyIdle ==
    /\ x_sparse = <<>> /\ y_sparse = <<>> /\ total_points = 0
    /\ dpc = "idle" /\ dres = NoDense

NoScaled == [status |-> "none", error |-> "none", table |-> <<>>]

ScaleIdle ==
    /\ wf_data = <<>> /\ cpc = "idle" /\ cres = NoScaled

NoSession == [recipe |-> "none"]

NoRun == [status |-> "idle", method |-> "", args |-> <<>>,
          error |-> "none", failed_step |-> ""]

\* a generator that holds no waveform and plays none
EmptyMemory == [volatile |-> <<>>, stored |-> <<>>, selected |-> "",
                refused |-> FALSE]

NoCall == [method |-> "", args |-> <<>>, status |-> "none",
           error |-> "none", sent |-> <<>>]

ConfigIdle ==
    /\ inst = "none" /\ inst_log = <<>> /\ inst_calls = 0
    /\ inst_res = NoCall

SessionIdle ==
    /\ session = NoSession /\ entry = "none" /\ ncalls = 0
    /\ events = <<>> /\ run = NoRun
    /\ sparse_t = <<>> /\ sparse_v = <<>>

DeviceIdle == awg_mem = EmptyMemory

InitDecode ==
    /\ python \in Pythons
    /\ preamble \in PreambleTexts
    /\ wire \in Wires
    /\ byte_order \in {"MSBF", "LSBF"}
    /\ unsigned \in {"OFF", "ON"}
    /\ qpc = "ready"
    /\ qres = NoResult
    /\ osc_io = <<>>
    /\ DensifyIdle
    /\ ScaleIdle
    /\ SessionIdle
    /\ DeviceIdle
    /\ ConfigIdle

\* one call of Scope.query_wf(byte_order, unsigned)
CallQueryWf ==
    /\ qpc = "ready"
    /\ \E r \in QueryWfOutcomes(preamble, wire, byte_order, unsigned,
                                python) :
           /\ qres' = r
           /\ osc_io' = osc_io \o r.io
    /\ qpc' = "done"
    /\ UNCHANGED <<python, preamble, wire, byte_order, unsigned>>
    /\ UNCHANGED densifyVars
    /\ UNCHANGED scaleVars
    /\ UNCHANGED sessionVars
    /\ UNCHANGED deviceVars
    /\ UNCHANGED configVars

NextDecode == CallQueryWf

SpecDecode == InitDecode /\ [][NextDecode]_vars

(***************************************************************************)
(* Properties of Scope.query_wf                                            *)
(***************************************************************************)
\* the fields of the preamble text, read off the text itself
TextFields ==
    LET words == SplitWS(preamble)
    IN  IF words = <<>> THEN <<>> ELSE SplitComma(words[1])

NumCommas == Cardinality({i \in 1..Len(preamble) : preamble[i] = ","})

\* every field is a number of its declared type
TenValidFields ==
    LET fields == TextFields
    IN  /\ Len(fields) = 10
        /\ \A k \in 1..10 : FieldError(fields, k, "raises", python) = "none"

\* the integer an integer text denotes, whatever its width; one of more
\* than nine digits is told from the others only as lying beyond them
Beyond == (Pow2(30) - 1) * 2 + 1

TextInt(tok, py) ==
    LET t == IntText(tok, py)
    IN  IF Len(t.digits) > 9 THEN (IF t.neg THEN -Beyond ELSE Beyond)
        ELSE IF t.neg THEN NegDigitsVal(t.digits) ELSE DigitsVal(t.digits)

GivenFormat == TextInt(TextFields[1], python)

\* np.int32 of the points field on the numpy np: preamble_dict["points"]
PointsOn(np) == ParseInt(TextFields[3], 32, np, python)

\* the point count of a preamble whose fields are valid
GivenPoints == PointsOn("raises").val
GivenXInc == ParseFloat(TextFields[5], 64, python).val
GivenXOrg == ParseFloat(TextFields[6], 64, python).val
GivenYInc == ParseFloat(TextFields[8], 32, python).val
GivenYOrg == ParseFloat(TextFields[9], 32, python).val

\* the raw samples the transport hands back for the format and the hints
RawSamples ==
    LET format == GivenFormat
    IN  CASE format = 0 -> Unpack8(wire, unsigned = "OFF")
          [] format = 1 -> Unpack16(wire, unsigned = "OFF", byte_order = "MSBF")
          [] OTHER -> wire

ValidDecodeInput ==
    /\ TenValidFields
    /\ GivenFormat \in {0, 1, 4}
    /\ LET points == GivenPoints
       IN  points >= 1 /\ Len(RawSamples) = points

\* C1: for a valid 10-field preamble and a buffer of exactly `points` raw
\* samples, query_wf returns a trace with time[i] = i*xIncrement + xOrigin and
\* voltage[i] = rawSample[i]*yIncrement + yOrigin for every i in 0..points-1.
C1_ScalingLaw ==
    (qpc = "done" /\ ValidDecodeInput) =>
        LET points == GivenPoints
            raw == RawSamples
            xinc == GivenXInc
            xorg == GivenXOrg
            yinc == GivenYInc
            yorg == GivenYOrg
        IN  /\ qres.status = "ok"
            /\ Len(qres.time) = points
            /\ Len(qres.wfm) = points
            /\ \A i \in 0..(points - 1) :
                  /\ qres.time[i + 1] =
                        FAdd(FMul(FloatOfInt(i), xinc, Double), xorg, Double)
                  /\ \E np \in NumpyBuilds :
                        qres.wfm[i + 1] =
                           FAdd(FMul(Cast(FloatOfInt(raw[i + 1]),
                                          Precision(np)),
                                     yinc, Precision(np)),
                                yorg, Precision(np))

C1_Witness ==
    /\ qpc = "done" /\ ValidDecodeInput
    /\ GivenPoints >= 2
    /\ GivenXOrg.mant # <<>> /\ GivenYOrg.mant # <<>>
    /\ qres.status = "ok"

\* C2 as stated: every returned trace has len(time) = len(voltage) =
\* pointCount, whatever number of raw samples the data query returned.
C2_Original ==
    (qpc = "done" /\ qres.status = "ok") =>
        /\ Len(qres.time) = qres.preamble_dict.points
        /\ Len(qres.wfm) = qres.preamble_dict.points

\* C2 amended: every returned trace has len(time) = pointCount (0 when
\* pointCount is negative) and
\* len(voltage) = the number of raw samples the data query returned, so the
\* two lengths agree with pointCount exactly when the instrument returned
\* pointCount samples.
C2_Lengths ==
    (qpc = "done" /\ qres.status = "ok") =>
        \E np \in NumpyBuilds :
            LET points == PointsOn(np)
                raw == RawSamples
            IN  /\ points.ok
                /\ Len(qres.time) = (IF points.val < 0 THEN 0 ELSE points.val)
                /\ Len(qres.wfm) = Len(raw)
                /\ (Len(raw) = points.val => Len(qres.time) = Len(qres.wfm))

C2_Witness ==
    /\ qpc = "done" /\ qres.status = "ok"
    /\ GivenPoints = 2
    /\ Len(RawSamples) = 2
    /\ Len(qres.time) = 2 /\ Len(qres.wfm) = 2

\* C3 as stated: query_wf fails, returning no trace, whenever the preamble
\* text has a number of comma-separated fields different from 10.
C3_FieldCount ==
    (qpc = "done" /\ NumCommas + 1 # 10) =>
        /\ qres.status = "error"
        /\ qres.time = <<>> /\ qres.wfm = <<>>

\* C4 as stated: query_wf fails, returning no trace, whenever the format
\* field of the preamble is a value outside {0, 1, 4}.
C4_UnsupportedFormat ==
    (/\ qpc = "done"
     /\ Len(TextFields) >= 1
     /\ IntText(TextFields[1], python).ok
     /\ GivenFormat \notin {0, 1, 4}) =>
        /\ qres.status = "error"
        /\ qres.time = <<>> /\ qres.wfm = <<>>

\* The inputs of the hint comparison: every shape, format, point count and
\* wire answer, on one pair of axes (the axes never meet the hints).
HintPreambles ==
    {PreambleText(sh, f, p, << <<"2">>, <<"-", "1">> >>,
                  << <<"0", ".", "5">>, <<"1">> >>) :
        sh \in Shapes, f \in FormatToks, p \in PointsToks}
    \cup EdgePreambles

InitHints ==
    /\ python \in Pythons
    /\ preamble \in HintPreambles
    /\ wire \in Wires
    /\ byte_order \in {"MSBF", "LSBF"}
    /\ unsigned \in {"OFF", "ON"}
    /\ qpc = "ready"
    /\ qres = NoResult
    /\ osc_io = <<>>
    /\ DensifyIdle
    /\ ScaleIdle
    /\ SessionIdle
    /\ DeviceIdle
    /\ ConfigIdle

SpecHints == InitHints /\ [][NextDecode]_vars

\* C21: for the ASCII format (format = 4) the outcome of query_wf, trace or
\* error, is the same for every byte-order hint and every signedness hint;
\* and the byte-order hint changes the outcome of a call only when the
\* format is 1 (16-bit).
C21_HintIndependence ==
    qpc = "done" =>
        \E np \in NumpyBuilds :
           /\ query_wf(preamble, wire, byte_order, unsigned, np, python) = qres
           /\ (Len(TextFields) >= 1 /\ IntText(TextFields[1], python).ok
                 /\ GivenFormat = 4) =>
                  \A bo \in {"MSBF", "LSBF"}, us \in {"OFF", "ON"} :
                      \/ (bo = byte_order /\ us = unsigned)
                      \/ query_wf(preamble, wire, bo, us, np, python) = qres
           /\ \/ (qres.status = "ok" /\ qres.preamble_dict.format = 1)
              \/ \A bo \in {"MSBF", "LSBF"} \ {byte_order} :
                     query_wf(preamble, wire, bo, unsigned, np, python) = qres

\* an ASCII trace of two samples decoded under the hints LSBF and ON
C21_Witness ==
    /\ qpc = "done" /\ TenValidFields
    /\ GivenFormat = 4
    /\ byte_order = "LSBF" /\ unsigned = "ON"
    /\ qres.status = "ok" /\ Len(qres.wfm) = 2
    /\ wire = <<255, 1>>

\* the element type the data query must ask for
ExpectedDataType ==
    CASE GivenFormat = 0 /\ unsigned = "OFF" -> "b"
      [] GivenFormat = 0 /\ unsigned = "ON" -> "B"
      [] GivenFormat = 1 /\ unsigned = "OFF" -> "h"
      [] GivenFormat = 1 /\ unsigned = "ON" -> "H"
      [] OTHER -> "ascii"

\* C22: a call of query_wf makes no transport call but queries; for a valid
\* preamble it makes exactly the preamble query and then the data query, of
\* the element type matching format and signedness; no query is repeated.
C22_TwoQueries ==
    qpc = "done" =>
        /\ Len(osc_io) <= 2
        /\ Len(osc_io) >= 1
        /\ osc_io[1] = [cmd |-> ":WAVeform:PREamble?", datatype |-> "text"]
        /\ Len(osc_io) = 2 => osc_io[2].cmd = "WAVeform:DATA?"
        /\ (TenValidFields /\ GivenFormat \in {0, 1, 4}) =>
               /\ Len(osc_io) = 2
               /\ osc_io[2].datatype = ExpectedDataType

\* a 16-bit unsigned call: preamble query, then data query of type H
C22_Witness ==
    /\ qpc = "done" /\ TenValidFields
    /\ GivenFormat = 1 /\ unsigned = "ON"
    /\ qres.status = "ok"
    /\ osc_io = <<[cmd |-> ":WAVeform:PREamble?", datatype |-> "text"],
                  [cmd |-> "WAVeform:DATA?", datatype |-> "H"]>>

(***************************************************************************)
(* interpolate_sparse_to_dense                                             *)
(***************************************************************************)
\* max(x_sparse) of Python: the element held is replaced by a later one
\* only when that one is greater
RECURSIVE MaxFrom(_, _, _)
MaxFrom(xs, i, m) ==
    IF i > Len(xs) THEN m
    ELSE MaxFrom(xs, i + 1, IF FLess(m, xs[i]) THEN xs[i] ELSE m)

Maximum(xs) == MaxFrom(xs, 2, xs[1])

\* ((x_sparse[i+1]-x_sparse[i])/max(x_sparse))*total_points, each operation
\* rounded to double precision (an int among the x values is computed with
\* as the double equal to it)
Share(xs, i, total) ==
    FMul(FDiv(FSub(xs[i + 1], xs[i], Double), Maximum(xs), Double),
         FloatOfInt(total), Double)

\* mutant of NToInterpolate: the share is rounded to the nearest integer
NToInterpolateRounded(xs, i, total) == RoundOfFloat(Share(xs, i, total))

\* n_to_interpolate = int(((x_sparse[i+1]-x_sparse[i])/max(x_sparse))*total_points)
\* for a finite share: a Python int, of any size
NToInterpolate(xs, i, total) == IntOfFloat(Share(xs, i, total))

\* the exception np.linspace raises for the count n, "none" if it raises
\* none: a negative count is refused; a table of 2^31 samples or more is
\* taken to exceed the memory of the host
LinspaceError(n) ==
    IF n.neg THEN "ValueError"
    ELSE IF ~IsSmall(n) THEN "MemoryError"
    ELSE "none"

\* the exception lines 104-105 raise for segment i, "none" if they raise
\* none: int() of a share that is not a number or is infinite, np.linspace
\* of the count
ShareError(xs, i, total) ==
    IF Share(xs, i, total).cls = "nan" THEN "ValueError"
    ELSE IF Share(xs, i, total).cls = "inf" THEN "OverflowError"
    ELSE LinspaceError(NToInterpolate(xs, i, total))

\* the exception segment i raises, "none" if it raises none: line 101 reads
\* y_sparse[i + 1] before line 104 divides by max(x_sparse), which raises
\* ZeroDivisionError for a maximum of zero
SegmentError(xs, ys, i, total) ==
    IF i + 1 > Len(ys) THEN "IndexError"
    ELSE IF IsZero(Maximum(xs)) THEN "ZeroDivisionError"
    ELSE ShareError(xs, i, total)

\* sample k (from 0) of np.linspace: k * step + start with step = delta /
\* div, each operation rounded to double precision; (k / div) * delta + start
\* when the step is zero, and k * delta + start when div is
LinspaceSample(start, delta, div, k) ==
    FAdd(IF div <= 0 THEN FMul(FloatOfInt(k), delta, Double)
         ELSE IF IsZero(FDiv(delta, FloatOfInt(div), Double))
         THEN FMul(FDiv(FloatOfInt(k), FloatOfInt(div), Double), delta,
                   Double)
         ELSE FMul(FloatOfInt(k), FDiv(delta, FloatOfInt(div), Double),
                   Double),
         start, Double)

\* mutant of Linspace: the right endpoint is included (endpoint=True)
LinspaceWithEndpoint(y_start, y_end, n) ==
    IF n <= 0 THEN <<>>
    ELSE [k \in 1..n |->
            IF n > 1 /\ k = n THEN FloatOfInt(y_end)
            ELSE LinspaceSample(FloatOfInt(y_start),
                                FSub(FloatOfInt(y_end), FloatOfInt(y_start),
                                     Double),
                                n - 1, k - 1)]

\* np.linspace(y_start, y_end, n, endpoint=False), n >= 0: start and stop
\* become doubles, delta = stop - start and div = n
Linspace(y_start, y_end, n) ==
    IF n <= 0 THEN <<>>
    ELSE [k \in 1..n |->
            LinspaceSample(FloatOfInt(y_start),
                           FSub(FloatOfInt(y_end), FloatOfInt(y_start),
                                Double),
                           n, k - 1)]

\* the counts of the segments the loop reaches: it stops at the first one
\* that raises, which has a count when np.linspace is what raises for it
RECURSIVE Counts(_, _, _, _)
Counts(xs, ys, total, i) ==
    IF i > Len(xs) - 1 THEN <<>>
    ELSE IF SegmentError(xs, ys, i, total) \in {"ValueError", "MemoryError"}
            /\ Share(xs, i, total).cls = "fin"
    THEN <<NToInterpolate(xs, i, total)>>
    ELSE IF SegmentError(xs, ys, i, total) # "none" THEN <<>>
    ELSE <<NToInterpolate(xs, i, total)>> \o Counts(xs, ys, total, i + 1)

\* y_dense after the loop over the segments i .. len(x_sparse)-2, none of
\* which raises
RECURSIVE Extend(_, _, _, _)
Extend(xs, ys, total, i) ==
    IF i > Len(xs) - 1 THEN <<>>
    ELSE Linspace(ys[i], ys[i + 1], IntOf(NToInterpolate(xs, i, total)))
            \o Extend(xs, ys, total, i + 1)

\* mutant of Pad: the table is filled up with its first sample
PadWithFirst(y_dense, total) ==
    IF Len(y_dense) >= total THEN [ok |-> TRUE, val |-> y_dense]
    ELSE IF y_dense = <<>> THEN [ok |-> FALSE, val |-> <<>>]
    ELSE [ok |-> TRUE,
          val |-> y_dense \o [k \in 1..(total - Len(y_dense)) |-> y_dense[1]]]

\* mutant of Pad: an empty table is filled with zeros
PadOrZeros(y_dense, total) ==
    IF Len(y_dense) >= total THEN [ok |-> TRUE, val |-> y_dense]
    ELSE IF y_dense = <<>>
         THEN [ok |-> TRUE, val |-> [k \in 1..total |-> FZero(FALSE)]]
         ELSE [ok |-> TRUE,
               val |-> y_dense \o [k \in 1..(total - Len(y_dense)) |->
                                      y_dense[Len(y_dense)]]]

\* while len(y_dense) < total_points: y_dense.append(y_dense[-1])
Pad(y_dense, total) ==
    IF Len(y_dense) >= total THEN [ok |-> TRUE, val |-> y_dense]
    ELSE IF y_dense = <<>> THEN [ok |-> FALSE, val |-> <<>>]
    ELSE [ok |-> TRUE,
          val |-> y_dense \o [k \in 1..(total - Len(y_dense)) |->
                                 y_dense[Len(y_dense)]]]

DenseFailure(kind, counts) ==
    [status |-> "error", error |-> kind, counts |-> counts, y_dense |-> <<>>]

\* lines 110-114: the table is padded and returned; y_dense[-1] of an empty
\* table raises IndexError
Padded(padded, counts) ==
    IF ~padded.ok THEN DenseFailure("IndexError", counts)
    ELSE [status |-> "ok", error |-> "none", counts |-> counts,
          y_dense |-> padded.val]

\* lines 98-108, bad the segments that raise: the first of them ends the call
Looped(xs, ys, total, bad) ==
    IF bad # {}
    THEN DenseFailure(SegmentError(xs, ys, SetMin(bad), total),
                      Counts(xs, ys, total, 1))
    ELSE Padded(Pad(Extend(xs, ys, total, 1), total), Counts(xs, ys, total, 1))

interpolate_sparse_to_dense(xs, ys, total) ==
    Looped(xs, ys, total,
           {i \in 1..(Len(xs) - 1) : SegmentError(xs, ys, i, total) # "none"})

(***************************************************************************)
(* Inputs of the synthesizer.                                              *)
(***************************************************************************)
\* the float of the number written n / d
Num(n, d) == FloatOfRat(Rat(n, d), Double)

Whole(ns) == [i \in 1..Len(ns) |-> FloatOfInt(ns[i])]

XValues == {FloatOfInt(n) : n \in 0..MaxX}

YValues == {0, 1}

Breakpoints ==
    UNION {[1..n -> XValues] \X [1..n -> YValues] : n \in 0..MaxBreakpoints}

\* <<x_sparse, y_sparse, total_points>> with fewer y values than x values:
\* line 101 reads y_sparse[i + 1] past the end
ShortBreakpoints ==
    {<<Whole(<<0, 0>>), <<0>>, 4>>, <<Whole(<<0, 1, 3>>), <<0, 1>>, 4>>,
     <<Whole(<<0, 1>>), <<>>, 2>>}

\* the largest total_points these inputs hold: 2^31 - 1
MostPoints == (Pow2(30) - 1) * 2 + 1

\* <<x_sparse, y_sparse, total_points>> with a count np.linspace cannot
\* serve: a share of 2^32 - 2 in size, and one of 4e300
LongBreakpoints ==
    {<<Whole(<<0 - 1, 1>>), <<0, 1>>, MostPoints>>,
     <<Whole(<<1, 0 - 1>>), <<0, 1>>, MostPoints>>,
     << <<FNeg(DecimalValue(FALSE, <<1>>, 300)), FloatOfInt(1)>>,
        <<0, 1>>, 4>>}

\* <<x_sparse, y_sparse, total_points>> where the share of a segment is a
\* whole number that double precision misses (15/22*22 is 14.999..., 1/49*49
\* is 0.999...), and where an x value is a fraction that is no float:
\* (1/3)*3 is 1 in double precision
EdgeBreakpoints ==
    {<<Whole(xt[1]), ys, xt[2]>> :
        xt \in {<< <<0, 15, 22>>, 22>>, << <<0, 1, 49>>, 49>>,
                << <<0, 49, 48>>, 49>>},
        ys \in {<<0, 1, 0>>, <<1, 0, 1>>}}
    \cup {<< <<FloatOfInt(49), FloatOfInt(48)>>, <<0, 1>>, 49>>,
          << <<FloatOfInt(0), Num(1, 3), FloatOfInt(1)>>, <<0, 1, 0>>, 3>>,
          << <<FloatOfInt(0), Num(1, 3), FloatOfInt(0), FloatOfInt(1)>>,
             <<0, 1, 0, 1>>, 3>>,
          << <<FloatOfInt(0), Num(1, 2), Num(3, 10)>>, <<0, 1, 0>>, 10>>}
    \cup ShortBreakpoints \cup LongBreakpoints

InitDensify ==
    /\ python \in Pythons
    /\ \/ /\ \E bp \in Breakpoints : x_sparse = bp[1] /\ y_sparse = bp[2]
          /\ total_points \in 1..MaxTotal
       \/ \E ed \in EdgeBreakpoints :
              x_sparse = ed[1] /\ y_sparse = ed[2] /\ total_points = ed[3]
    /\ dpc = "ready"
    /\ dres = NoDense
    /\ DecodeIdle
    /\ ScaleIdle
    /\ SessionIdle
    /\ DeviceIdle
    /\ ConfigIdle

\* one call of interpolate_sparse_to_dense(x_sparse, y_sparse, total_points)
CallDensify ==
    /\ dpc = "ready"
    /\ dres' = interpolate_sparse_to_dense(x_sparse, y_sparse, total_points)
    /\ dpc' = "done"
    /\ UNCHANGED <<python, x_sparse, y_sparse, total_points>>
    /\ UNCHANGED decodeVars
    /\ UNCHANGED scaleVars
    /\ UNCHANGED sessionVars
    /\ UNCHANGED deviceVars
    /\ UNCHANGED configVars

NextDensify == CallDensify

SpecDensify == InitDensify /\ [][NextDensify]_vars

(***************************************************************************)
(* Properties of interpolate_sparse_to_dense                               *)
(***************************************************************************)
NumSegments == Len(x_sparse) - 1

StrictlyIncreasing ==
    \A i \in 1..NumSegments : FLess(x_sparse[i], x_sparse[i + 1])

\* at least 2 breakpoints (an x and a y each), x >= 0 and strictly
\* increasing
WellFormedBreakpoints ==
    /\ Len(x_sparse) >= 2
    /\ Len(y_sparse) = Len(x_sparse)
    /\ \A i \in 1..Len(x_sparse) : FLeq(FZero(FALSE), x_sparse[i])
    /\ StrictlyIncreasing

XLast == x_sparse[Len(x_sparse)]

\* index in y_dense of the last sample before segment i
RECURSIVE Offset(_, _)
Offset(counts, i) ==
    IF i <= 1 THEN 0 ELSE IntOf(counts[i - 1]) + Offset(counts, i - 1)

\* C5 as stated: for every valid input (at least 2 breakpoints, x >= 0 and
\* strictly increasing, totalPoints >= number of breakpoints) the call
\* succeeds and the table has exactly totalPoints samples.
C5_ExactLength ==
    (dpc = "done" /\ WellFormedBreakpoints /\ total_points >= Len(x_sparse)) =>
        /\ dres.status = "ok"
        /\ Len(dres.y_dense) = total_points

\* C6 as stated: the segment between breakpoints i and i+1 gets
\* n_i = round(totalPoints * (x_{i+1} - x_i) / x_last) samples.
C6_Original ==
    (dpc = "done" /\ WellFormedBreakpoints) =>
        /\ Len(dres.counts) = NumSegments
        /\ \A i \in 1..NumSegments :
              dres.counts[i] =
                 RoundOfFloat(FDiv(FMul(FloatOfInt(total_points),
                                        FSub(x_sparse[i + 1], x_sparse[i],
                                             Double),
                                        Double),
                                   XLast, Double))

\* the share of segment i as line 104 computes it
ComputedShare(i) ==
    FMul(FDiv(FSub(x_sparse[i + 1], x_sparse[i], Double), XLast, Double),
         FloatOfInt(total_points), Double)

\* C6 amended: the segment between breakpoints i and i+1 gets
\* n_i = int(((x_{i+1} - x_i) / x_last) * totalPoints) samples, the share
\* computed in double precision: it is truncated (rounded down), not
\* rounded to the nearest integer, so n_i <= share < n_i + 1.
C6_TruncatedCount ==
    (dpc = "done" /\ WellFormedBreakpoints) =>
        /\ Len(dres.counts) = NumSegments
        /\ \A i \in 1..NumSegments :
              /\ ~dres.counts[i].neg
              /\ IsSmall(dres.counts[i])
              /\ FLeq(FloatOfPyInt(dres.counts[i]), ComputedShare(i))
              /\ FLess(ComputedShare(i),
                       FloatOfInt(IntOf(dres.counts[i]) + 1))

\* x = [0, 1, 3] and 4 points: the shares 1.33 and 2.67 give 1 and 2 samples
C6_Witness ==
    /\ dpc = "done" /\ WellFormedBreakpoints
    /\ dres.status = "ok"
    /\ x_sparse = Whole(<<0, 1, 3>>) /\ total_points = 4
    /\ dres.counts = <<PyInt(1), PyInt(2)>>

\* C7: the k-th sample of segment i (0 <= k < n_i) is
\* y_i + k*(y_{i+1} - y_i)/n_i (as a double: within 2^-50 of that value); a
\* non-empty segment starts at y_i and never emits y_{i+1}; the samples of a
\* rising segment increase strictly and stay below y_{i+1}.
C7_SegmentSamples ==
    (dpc = "done" /\ dres.status = "ok") =>
        \A i \in 1..NumSegments :
            LET n == IntOf(dres.counts[i])
                off == Offset(dres.counts, i)
                sample(k) == dres.y_dense[off + k + 1]
            IN  /\ \A k \in 0..(n - 1) :
                      /\ AgreesTo(sample(k),
                                  n * y_sparse[i]
                                     + k * (y_sparse[i + 1] - y_sparse[i]),
                                  n, 50)
                      /\ sample(k) # FloatOfInt(y_sparse[i + 1])
                            \/ y_sparse[i + 1] = y_sparse[i]
                /\ (n >= 1 => sample(0) = FloatOfInt(y_sparse[i]))
                /\ (y_sparse[i] < y_sparse[i + 1] =>
                      /\ \A k \in 0..(n - 1) :
                            FLess(sample(k), FloatOfInt(y_sparse[i + 1]))
                      /\ \A k \in 0..(n - 2) :
                            FLess(sample(k), sample(k + 1)))

\* x = [0, 1, 3], y = [1, 0, 1] and 4 points: the second segment holds 0.0
\* and 0.5
C7_Witness ==
    /\ dpc = "done" /\ dres.status = "ok"
    /\ NumSegments = 2
    /\ dres.counts = <<PyInt(1), PyInt(2)>>
    /\ y_sparse = <<1, 0, 1>>
    /\ dres.y_dense[3] = Num(1, 2)

\* C8: the call fails, returning no table, whenever fewer than 2 breakpoints
\* are given, for every totalPoints > 0.
C8_TooFewBreakpoints ==
    (dpc = "done" /\ Len(x_sparse) < 2 /\ total_points > 0) =>
        /\ dres.status = "error"
        /\ dres.y_dense = <<>>

C8_Witness ==
    /\ dpc = "done"
    /\ x_sparse = Whole(<<0>>) /\ y_sparse = <<0>>
    /\ total_points > 1
    /\ dres.status = "error" /\ dres.error = "IndexError"

\* C9 as stated: the call fails, returning no table, whenever the x-values
\* are not strictly increasing (some x_{i+1} < x_i or some x_{i+1} = x_i).
C9_FailsUnlessIncreasing ==
    (dpc = "done" /\ Len(x_sparse) >= 2 /\ ~StrictlyIncreasing) =>
        /\ dres.status = "error"
        /\ dres.y_dense = <<>>

\* C10 as stated: the call fails whenever totalPoints is smaller than the
\* number of breakpoints, even if the breakpoints are well-formed.
C10_TooFewPoints ==
    (dpc = "done" /\ WellFormedBreakpoints /\ total_points < Len(x_sparse)) =>
        dres.status = "error"

\* C20: when the per-segment counts sum to m < total_points, the samples at
\* indices m .. total_points-1 all equal the last interpolated sample (index
\* m-1), and the first m samples are the interpolated ones, unchanged.
C20_PaddingRepeatsLast ==
    (dpc = "done" /\ dres.status = "ok") =>
        LET m == Offset(dres.counts, Len(dres.counts) + 1)
        IN  m < total_points =>
              /\ Len(dres.y_dense) = total_points
              /\ \A j \in (m + 1)..total_points :
                     dres.y_dense[j] = dres.y_dense[m]
              /\ SubSeq(dres.y_dense, 1, m)
                     = Extend(x_sparse, y_sparse, total_points, 1)

\* a call that interpolated three samples <<0, 1, 1/2>> and padded a fourth
C20_Witness ==
    /\ dpc = "done" /\ dres.status = "ok"
    /\ x_sparse = Whole(<<0, 1, 3>>) /\ y_sparse = <<0, 1, 0>>
    /\ total_points = 4
    /\ dres.counts = <<PyInt(1), PyInt(2)>>
    /\ dres.y_dense = <<FloatOfInt(0), FloatOfInt(1), Num(1, 2), Num(1, 2)>>
(***************************************************************************)
(* scale_waveform_data                                                     *)
(***************************************************************************)
\* the factor of "return normalized * 8191"
FullScaleCode == 8191

SeqMin(xs) == CHOOSE m \in {xs[i] : i \in 1..Len(xs)} :
                  \A i \in 1..Len(xs) : m <= xs[i]

SeqMax(xs) == CHOOSE m \in {xs[i] : i \in 1..Len(xs)} :
                  \A i \in 1..Len(xs) : xs[i] <= m

\* np.ptp(data): maximum minus minimum
Ptp(xs) == SeqMax(xs) - SeqMin(xs)

\* mutant of Normalized: the shift by one is left out
NormalizedUnshifted(xs, i) ==
    FDiv(FloatOfInt(2 * (xs[i] - SeqMin(xs))), FloatOfInt(Ptp(xs)), Double)

\* normalized = 2 * (data - np.min(data)) / np.ptp(data) - 1: the
\* difference and its double are integers of the table's type, the quotient
\* is a double (not-a-number for 0/0) and so is the difference from 1
Normalized(xs, i) ==
    FSub(FDiv(FloatOfInt(2 * (xs[i] - SeqMin(xs))), FloatOfInt(Ptp(xs)),
              Double),
         FloatOfInt(1), Double)

\* normalized * 8191
Scaled(xs, i) == FMul(Normalized(xs, i), FloatOfInt(FullScaleCode), Double)

\* np.min of an empty table raises ValueError; otherwise each sample is
\* normalised and scaled
scale_waveform_data(xs) ==
    IF Len(xs) = 0
    THEN [status |-> "error", error |-> "ValueError", table |-> <<>>]
    ELSE [status |-> "ok", error |-> "none",
          table |-> [i \in 1..Len(xs) |-> Scaled(xs, i)]]

Levels == (0 - MaxLevel)..MaxLevel

Tables == UNION {[1..n -> Levels] : n \in 0..MaxSamples}

InitScale ==
    /\ python \in Pythons
    /\ wf_data \in Tables
    /\ cpc = "ready"
    /\ cres = NoScaled
    /\ DecodeIdle
    /\ DensifyIdle
    /\ SessionIdle
    /\ DeviceIdle
    /\ ConfigIdle

\* one call of scale_waveform_data(data)
CallScale ==
    /\ cpc = "ready"
    /\ cres' = scale_waveform_data(wf_data)
    /\ cpc' = "done"
    /\ UNCHANGED <<python, wf_data>>
    /\ UNCHANGED decodeVars
    /\ UNCHANGED densifyVars
    /\ UNCHANGED sessionVars
    /\ UNCHANGED deviceVars
    /\ UNCHANGED configVars

NextScale == CallScale

SpecScale == InitScale /\ [][NextScale]_vars

(***************************************************************************)
(* Commands sent by the drivers.  An event is one transport call or one    *)
(* step of the host: "step" is the method of the session that was running, *)
(* "op" the driver method that made the call, "cmd" the text sent, "mark"  *)
(* the stage of waveform synthesis the event completes ("" for none),      *)
(* "name" and "data" the waveform name and the table a waveform command    *)
(* carries ("" and <<>> for every other command).                          *)
(***************************************************************************)
Ev(op, dev, cmd, mark) ==
    [step |-> "", op |-> op, dev |-> dev, cmd |-> cmd, mark |-> mark,
     name |-> "", data |-> <<>>]

\* Instrument.initialize: self.write("*RST"); self.write("*CLS")
initialize(dev) ==
    <<Ev("initialize", dev, "*RST", ""), Ev("initialize", dev, "*CLS", "")>>

\* Awg.couple_channels
couple_channels == <<Ev("couple_channels", "awg", ":TRACK:CHAN1 ON", "")>>

\* Awg.configure_impedance: two writes, no check of the arguments
configure_impedance(channel, source_impedance, load_impedance) ==
    <<Ev("configure_impedance", "awg",
         ":OUTP" \o channel \o ":IMP " \o source_impedance, ""),
      Ev("configure_impedance", "awg",
         ":OUTP" \o channel \o ":IMP:EXT " \o load_impedance, "")>>

\* Awg.configure_trigger(channel, source, mode='EDGE', slope='POS')
Awg_configure_trigger(channel, source, mode, slope) ==
    <<Ev("Awg.configure_trigger", "awg",
         ":ARM:SOUR" \o channel \o " " \o source, ""),
      Ev("Awg.configure_trigger", "awg",
         ":ARM:SENS" \o channel \o " " \o mode, ""),
      Ev("Awg.configure_trigger", "awg", ":ARM:SLOP " \o slope, "")>>

\* data_string of Awg.create_arb_wf: str(data[i]) joined by commas
RECURSIVE DataString(_)
DataString(d) ==
    IF Len(d) = 0 THEN ""
    ELSE IF Len(d) = 1 THEN ToString(d[1])
    ELSE ToString(d[1]) \o "," \o DataString(Tail(d))

\* mutant of create_arb_wf: the copy is sent whether a name is given or not
create_arb_wf_always_copy(d, name) ==
    <<[Ev("create_arb_wf", "awg", ":DATA VOLATILE, " \o DataString(d),
          "UploadedVolatile") EXCEPT !.data = d],
      [Ev("create_arb_wf", "awg", ":DATA:COPY " \o name \o ", VOLATILE",
          "Named") EXCEPT !.name = name]>>

\* Awg.create_arb_wf(data, name): the table is written as given (it is not
\* scaled), then copied to the name
create_arb_wf(d, name) ==
    <<[Ev("create_arb_wf", "awg", ":DATA VOLATILE, " \o DataString(d),
          "UploadedVolatile") EXCEPT !.data = d]>>
    \o (IF name = "None" THEN <<>>
        ELSE <<[Ev("create_arb_wf", "awg",
                   ":DATA:COPY " \o name \o ", VOLATILE", "Named")
                   EXCEPT !.name = name]>>)

\* Awg.configure_arb_wf(channel, name, gain, offset='0.00', freq)
configure_arb_wf(channel, name, gain, offset, freq) ==
    <<[Ev("configure_arb_wf", "awg", ":FUNC" \o channel \o ":USER " \o name,
          "") EXCEPT !.name = name],
      Ev("configure_arb_wf", "awg", ":FUNC" \o channel \o " USER", ""),
      Ev("configure_arb_wf", "awg", ":VOLT" \o channel \o " " \o gain, ""),
      Ev("configure_arb_wf", "awg", ":FREQ" \o channel \o " " \o freq, ""),
      Ev("configure_arb_wf", "awg", ":VOLT" \o channel \o ":OFFS " \o offset,
         "ConfiguredOnChannel")>>

\* Awg.send_software_trigger
send_software_trigger == <<Ev("send_software_trigger", "awg", ":TRIG", "")>>

\* time.sleep(0.2)
sleep == <<Ev("time.sleep", "host", "0.2", "")>>

(***************************************************************************)
(* Properties of scale_waveform_data                                       *)
(***************************************************************************)
AllEqual(xs) == \A i, j \in 1..Len(xs) : xs[i] = xs[j]

\* the double out lies within 2^-39 of the fraction num/den (den > 0): the
\* three roundings of the computation (quotient, shift, product) stay
\* below that
Agrees(out, num, den) == AgreesTo(out, num, den, 39)

\* C11: for a table whose samples are not all equal, each sample s becomes
\* (2*(s - min)/(max - min) - 1) * 8191 (as a double: within 2^-39 of that
\* value), so the minimum maps to -8191, the maximum to +8191 and every
\* output lies between them.
C11_LinearMapping ==
    (cpc = "done" /\ Len(wf_data) >= 1 /\ ~AllEqual(wf_data)) =>
        /\ cres.status = "ok"
        /\ Len(cres.table) = Len(wf_data)
        /\ \A i \in 1..Len(wf_data) :
             LET out == cres.table[i]
                 lo == SeqMin(wf_data)
                 hi == SeqMax(wf_data)
             IN  /\ Agrees(out, (2 * (wf_data[i] - lo) - (hi - lo)) * 8191,
                           hi - lo)
                 /\ (wf_data[i] = lo => out = FloatOfInt(0 - 8191))
                 /\ (wf_data[i] = hi => out = FloatOfInt(8191))
                 /\ FLeq(FloatOfInt(0 - 8191), out)
                 /\ FLeq(out, FloatOfInt(8191))

\* the table <<0, 1, 2>> scaled to <<-8191, 0, 8191>>
C11_Witness ==
    /\ cpc = "done"
    /\ wf_data = <<0, 1, 2>>
    /\ cres.table = <<FloatOfInt(0 - 8191), FZero(FALSE), FloatOfInt(8191)>>

\* C12 as stated: when all samples are equal (max - min = 0) the call fails
\* with an error and returns no scaled table.
C12_DegenerateRange ==
    (cpc = "done" /\ Len(wf_data) >= 1 /\ AllEqual(wf_data)) =>
        /\ cres.status = "error"
        /\ cres.table = <<>>
(***************************************************************************)
(* DiscreteWaveform, HysteresisLoop, PUNDPulse                             *)
(* The result of a method is [plan, error, failed_step]: the events it     *)
(* produces when no transport call fails, and the exception it then raises *)
(* ("none" when it returns).                                               *)
(***************************************************************************)
Tag(step, evs) == [i \in 1..Len(evs) |-> [evs[i] EXCEPT !.step = step]]

Outcome(step, evs, error) ==
    [plan |-> Tag(step, evs), error |-> error,
     failed_step |-> IF error = "none" THEN "" ELSE step]

\* HysteresisLoop.__init__ stores awg and osc; PUNDPulse.__init__ takes no
\* instruments and does not call DiscreteWaveform.__init__, so a PUNDPulse
\* has no attribute awg, osc, data, length or voltage_channel
HasInstruments(s) == s.recipe = "HYSTERESIS"

\* self.length: HysteresisLoop.__init__ sets it to 1/frequency, a float,
\* and raises ZeroDivisionError for the frequency 0; a PUNDPulse has no such
\* attribute, and reading it raises AttributeError
Length(s) ==
    IF s.recipe # "HYSTERESIS"
    THEN [defined |-> FALSE, error |-> "AttributeError", val |-> FZero(FALSE)]
    ELSE IF s.frequency = 0
    THEN [defined |-> FALSE, error |-> "ZeroDivisionError",
          val |-> FZero(FALSE)]
    ELSE [defined |-> TRUE, error |-> "none",
          val |-> FDiv(FloatOfInt(1), FloatOfInt(s.frequency), Double)]

\* [1,0,-1,0] * k
RECURSIVE Cycles(_)
Cycles(k) == IF k <= 0 THEN <<>> ELSE <<1, 0, -1, 0>> \o Cycles(k - 1)

\* interp_voltage_array of HysteresisLoop.configure_awg
InterpVoltageArray(s) == <<0, 1, 0, -1, 0>> \o Cycles(s.n_cycles - 1)

\* times of PUNDPulse.configure_awg
Times(s) == <<FZero(FALSE), s.reset_width, s.reset_delay, s.p_u_width,
              s.p_u_delay, s.p_u_width, s.p_u_delay>>

\* sum() of the first i entries up to Python 3.11: one addition after the
\* other, each rounded
RECURSIVE SumTo(_, _)
SumTo(ts, i) ==
    IF i = 0 THEN FZero(FALSE) ELSE FAdd(SumTo(ts, i - 1), ts[i], Double)

FAbs(a) == [a EXCEPT !.neg = FALSE]

\* One step of sum() from Python 3.12 on: p.s is the rounded sum so far and
\* p.c what the roundings lost, x the next entry and t the rounded p.s + x;
\* the step adds to c what the rounding of t lost
Compensate(p, x, t) ==
    [s |-> t,
     c |-> FAdd(p.c,
                FAdd(FSub(IF FLeq(FAbs(x), FAbs(p.s)) THEN p.s ELSE x, t,
                          Double),
                     IF FLeq(FAbs(x), FAbs(p.s)) THEN x ELSE p.s, Double),
                Double)]

CompensatedStep(p, x) == Compensate(p, x, FAdd(p.s, x, Double))

\* sum() from Python 3.12 on, over the first i entries
RECURSIVE Compensated(_, _)
Compensated(ts, i) ==
    IF i = 0 THEN [s |-> FZero(FALSE), c |-> FZero(FALSE)]
    ELSE CompensatedStep(Compensated(ts, i - 1), ts[i])

\* the result of the compensated sum: the lost part is added at the end,
\* unless it is zero or not finite
Corrected(r) ==
    IF r.c.cls = "fin" /\ ~IsZero(r.c) THEN FAdd(r.s, r.c, Double) ELSE r.s

\* sum(times[:i]) as the interpreter of the session computes it
Sum(ts, i, py) ==
    IF py = "3.11" THEN SumTo(ts, i) ELSE Corrected(Compensated(ts, i))

\* sum_times = [sum(times[:i+1]) for i, t in enumerate(times)]
SumTimes(s) == [i \in 1..7 |-> Sum(Times(s), i, s.python)]

\* every edge time but the last appears twice
Edges(st) ==
    <<FZero(FALSE), st[1], st[1], st[2], st[2], st[3], st[3],
      st[4], st[4], st[5], st[5], st[6]>>

\* sparse_t
SparseT(s) == Edges(SumTimes(s))

\* the levels of sparse_v from the two fractions: the array of floats is
\* multiplied by the polarity
PulseLevels(fr, fp, polarity) ==
    [i \in 1..12 |->
        FMul(<<FNeg(fr), FNeg(fr), FZero(FALSE), FZero(FALSE), fp, fp,
               FZero(FALSE), FZero(FALSE), fp, fp, FZero(FALSE),
               FZero(FALSE)>>[i],
             polarity, Double)]

\* sparse_v, with amplitude = reset_amp + p_u_amp and the two fractions
\* amplitude/reset_amp and amplitude/p_u_amp
SparseV(s) ==
    PulseLevels(FDiv(FloatOfInt(s.reset_amp + s.p_u_amp),
                  FloatOfInt(s.reset_amp), Double),
             FDiv(FloatOfInt(s.reset_amp + s.p_u_amp),
                  FloatOfInt(s.p_u_amp), Double),
             IF s.p_u_amp < 0 THEN FloatOfInt(0 - 1) ELSE FloatOfInt(1))

\* HysteresisLoop.configure_awg / PUNDPulse.configure_awg
configure_awg(s) ==
    IF s.recipe = "HYSTERESIS"
    THEN Outcome("configure_awg",
                 create_arb_wf(InterpVoltageArray(s), "PV")
                 \o configure_arb_wf(s.voltage_channel, "PV",
                                     ToString(s.amplitude * 2), "0.00",
                                     ToString(s.frequency)),
                 "none")
    ELSE IF s.reset_amp = 0 \/ s.p_u_amp = 0
    THEN Outcome("configure_awg", <<>>, "ZeroDivisionError")
    ELSE Outcome("configure_awg",
                 <<Ev("configure_awg", "host", "sparse_t, sparse_v",
                      "BreakpointsComputed")>>,
                 "AttributeError")

\* DiscreteWaveform.configure_trigger
configure_trigger(s) ==
    IF ~HasInstruments(s)
    THEN Outcome("configure_trigger", <<>>, "AttributeError")
    ELSE Outcome("configure_trigger",
                 initialize("awg") \o couple_channels
                 \o configure_impedance("1", "50.0", "50")
                 \o Awg_configure_trigger("1", "MAN", "EDGE", "POS"),
                 "none")

\* DiscreteWaveform.configure_oscilloscope: after osc.initialize() the call
\* of Scope.configure_timebase passes the keyword "scale", which that
\* method does not have (it has time_scale): TypeError
configure_oscilloscope(s) ==
    IF ~HasInstruments(s)
    THEN Outcome("configure_oscilloscope", <<>>, "AttributeError")
    ELSE Outcome("configure_oscilloscope", initialize("osc"), "TypeError")

\* the transport calls of Scope.query_wf, as events
QueryEvents(io) ==
    [i \in 1..Len(io) |-> Ev("query_wf", "osc", io[i].cmd, "")]

\* DiscreteWaveform.apply_and_capture_waveform: trigger, wait, query_wf
\* (r is what self.osc.query_wf() does on this oscilloscope); pandas has no
\* attribute "Dataframe", so self.data is never assigned
apply_and_capture_waveform(s, r) ==
    IF ~HasInstruments(s)
    THEN Outcome("apply_and_capture_waveform", <<>>, "AttributeError")
    ELSE Outcome("apply_and_capture_waveform",
                 send_software_trigger \o sleep \o QueryEvents(r.io),
                 IF r.status = "error" THEN r.error ELSE "AttributeError")

\* DiscreteWaveform.save_waveform: exports only when self.data is set; a
\* PUNDPulse has no attribute data
save_waveform(s, d) ==
    IF ~HasInstruments(s)
    THEN Outcome("save_waveform", <<>>, "AttributeError")
    ELSE Outcome("save_waveform",
                 IF d = "None" THEN <<>>
                 ELSE <<Ev("to_csv", "host", "waveform.csv", "")>>,
                 "none")

\* mutant of Then: the next step runs whether or not the step before failed
ThenRegardless(a, b) ==
    [plan |-> a.plan \o b.plan,
     error |-> IF a.error # "none" THEN a.error ELSE b.error,
     failed_step |-> IF a.error # "none" THEN a.failed_step
                     ELSE b.failed_step]

\* two statements in sequence: an exception of the first ends the method
Then(a, b) ==
    IF a.error # "none" THEN a
    ELSE [plan |-> a.plan \o b.plan, error |-> b.error,
          failed_step |-> b.failed_step]

\* mutant of run_experiment: the third step is left out
run_experiment_unconfigured(s, r, d) ==
    Then(configure_awg(s),
    Then(configure_trigger(s),
    Then(apply_and_capture_waveform(s, r),
         save_waveform(s, d))))

\* DiscreteWaveform.run_experiment: the argument of the third call is the
\* name v_div, which is not defined in run_experiment: NameError
run_experiment(s, r, d) ==
    Then(configure_awg(s),
    Then(configure_trigger(s),
    Then(Outcome("configure_oscilloscope", <<>>, "NameError"),
    Then(apply_and_capture_waveform(s, r),
         save_waveform(s, d)))))

\* a transport call that fails: the k-th event of the plan raises instead
\* of being carried out (k = 0: none fails)
Execute(o, k) ==
    IF k \in 1..Len(o.plan) /\ o.plan[k].dev # "host"
    THEN [plan |-> SubSeq(o.plan, 1, k - 1), error |-> "TransportError",
          failed_step |-> o.plan[k].step]
    ELSE o

(***************************************************************************)
(* The generator's waveform memory, as the docstring of create_arb_wf      *)
(* describes it: one volatile waveform and UserSlots named ones; a copy    *)
(* to a name is not carried out when every slot is filled, and the write   *)
(* that asked for it returns all the same.  "selected" is the name the     *)
(* channel was last told to play, "refused" whether a copy was turned down.*)
(***************************************************************************)
UserSlots == 4

StoredAt(mem, name) == {i \in 1..Len(mem.stored) : mem.stored[i].name = name}

\* the copy of the volatile waveform to a name
CopyVolatile(mem, name) ==
    IF Len(mem.stored) >= UserSlots
    THEN [mem EXCEPT !.refused = TRUE]
    ELSE IF StoredAt(mem, name) # {}
    THEN [mem EXCEPT !.stored =
              [i \in 1..Len(mem.stored) |->
                  IF mem.stored[i].name = name
                  THEN [name |-> name, table |-> mem.volatile]
                  ELSE mem.stored[i]]]
    ELSE [mem EXCEPT !.stored =
              Append(mem.stored, [name |-> name, table |-> mem.volatile])]

\* the effect of one command on the generator
DeviceStep(mem, ev) ==
    IF ev.dev # "awg" THEN mem
    ELSE IF ev.cmd = "*RST" \/ ev.mark = "BuiltIn"
    THEN [mem EXCEPT !.selected = ""]
    ELSE IF ev.mark = "UploadedVolatile" THEN [mem EXCEPT !.volatile = ev.data]
    ELSE IF ev.mark = "Named" THEN CopyVolatile(mem, ev.name)
    ELSE IF ev.op = "configure_arb_wf" /\ ev.name # ""
    THEN [mem EXCEPT !.selected = ev.name]
    ELSE mem

RECURSIVE Device(_, _)
Device(mem, evs) ==
    IF Len(evs) = 0 THEN mem
    ELSE Device(DeviceStep(mem, evs[1]), Tail(evs))

\* the table the channel plays: that of the selected name, if there is one
Playing(mem) ==
    IF mem.selected = "VOLATILE"
    THEN [found |-> TRUE, table |-> mem.volatile]
    ELSE IF StoredAt(mem, mem.selected) # {}
    THEN [found |-> TRUE,
          table |-> mem.stored[CHOOSE i \in StoredAt(mem, mem.selected) : TRUE].table]
    ELSE [found |-> FALSE, table |-> <<>>]

(***************************************************************************)
(* A session and its caller                                                *)
(***************************************************************************)
\* the frequencies a caller constructs a HysteresisLoop with
Frequencies == {0, 1000, 2000}

Widths == {Num(k, 1000) : k \in 1..MaxWidth}

\* the HysteresisLoop objects: those whose construction returned (line 130
\* raises for the frequency 0, and no object is made)
HysteresisLoops ==
    {s \in [recipe : {"HYSTERESIS"}, python : Pythons, data : {"None"},
            voltage_channel : {"1"},
            frequency : Frequencies, amplitude : {1}, n_cycles : 1..MaxCycles,
            reset_amp : {0}, p_u_amp : {0}, reset_width : {FZero(FALSE)},
            reset_delay : {FZero(FALSE)}, p_u_width : {FZero(FALSE)},
            p_u_delay : {FZero(FALSE)}] :
        Length(s).error # "ZeroDivisionError"}

PUNDPulses ==
    [recipe : {"PUND"}, python : Pythons, data : {"absent"},
     voltage_channel : {"absent"},
     frequency : {0}, amplitude : {0}, n_cycles : {0},
     reset_amp : {0, 1}, p_u_amp : {-1, 1}, reset_width : Widths,
     reset_delay : Widths, p_u_width : Widths, p_u_delay : Widths]

\* a pulse train with a delay too short for the sum to hold it:
\* 1.0 + 1e-17 is 1.0
EdgePulses ==
    [recipe : {"PUND"}, python : Pythons, data : {"absent"},
     voltage_channel : {"absent"},
     frequency : {0}, amplitude : {0}, n_cycles : {0},
     reset_amp : {1}, p_u_amp : {1}, reset_width : {FloatOfInt(1)},
     reset_delay : {DecimalValue(FALSE, <<1>>, 0 - 17)},
     p_u_width : {Num(1, 1000)}, p_u_delay : {Num(1, 1000)}]

\* what the oscilloscope answers: a BYTE preamble of two points, or one
\* with nine fields
SessionPreambles ==
    {PreambleText(sh, <<"0">>, <<"2">>, << <<"2">>, <<"-", "1">> >>,
                  << <<"0", ".", "5">>, <<"1">> >>) : sh \in {"ten", "nine"}}

\* a waveform left on the generator by earlier work
Stale(name) == [name |-> name, table |-> <<1, -1>>]

\* the generator's memory when the session starts: empty, every slot
\* filled under other names, or every slot filled and one of them "PV"
Memories ==
    {EmptyMemory,
     [EmptyMemory EXCEPT !.stored =
         <<Stale("A"), Stale("B"), Stale("C"), Stale("D")>>],
     [EmptyMemory EXCEPT !.stored =
         <<Stale("A"), Stale("B"), Stale("C"), Stale("PV")>>]}

InitSession ==
    /\ session \in HysteresisLoops \cup PUNDPulses \cup EdgePulses
    /\ python = session.python
    /\ awg_mem \in Memories
    /\ entry \in {"run_experiment", "steps"}
    /\ ncalls = 0
    /\ events = <<>>
    /\ run = [NoRun EXCEPT !.status = "ready"]
    /\ sparse_t = <<>> /\ sparse_v = <<>>
    /\ preamble \in SessionPreambles
    /\ wire = <<1, 255>>
    /\ byte_order = "MSBF" /\ unsigned = "OFF"
    /\ qpc = "idle" /\ qres = NoResult /\ osc_io = <<>>
    /\ DensifyIdle
    /\ ScaleIdle
    /\ ConfigIdle

\* the state after a method of the session has run with outcome o, but for
\* the breakpoint arrays
Return(method, a, o) ==
    /\ events' = events \o o.plan
    /\ awg_mem' = Device(awg_mem, o.plan)
    /\ run' = [status |-> IF o.error = "none" THEN "returned" ELSE "raised",
               method |-> method, args |-> a, error |-> o.error,
               failed_step |-> o.failed_step]
    /\ ncalls' = ncalls + 1
    /\ UNCHANGED <<python, session, entry>>
    /\ UNCHANGED decodeVars
    /\ UNCHANGED densifyVars
    /\ UNCHANGED scaleVars
    /\ UNCHANGED configVars

\* the state after a method that does not go through configure_awg
FinishCall(method, a, o) ==
    /\ Return(method, a, o)
    /\ UNCHANGED <<sparse_t, sparse_v>>

Finish(method, o) == FinishCall(method, <<>>, o)

\* the state after configure_awg, or after run_experiment, which calls it:
\* PUNDPulse.configure_awg builds sparse_t and sparse_v (lines 186-189)
\* when its plan gets that far
FinishAwg(method, o) ==
    /\ Return(method, <<>>, o)
    /\ IF \E i \in 1..Len(o.plan) : o.plan[i].mark = "BreakpointsComputed"
       THEN sparse_t' = SparseT(session) /\ sparse_v' = SparseV(session)
       ELSE UNCHANGED <<sparse_t, sparse_v>>

\* the outcomes of a method whose plan is o: with no transport failure, or
\* with the k-th transport call failing
Outcomes(o) == {Execute(o, k) : k \in 0..Len(o.plan)}

\* the caller runs run_experiment once
RunExperiment ==
    /\ entry = "run_experiment" /\ run.status = "ready"
    /\ \E r \in QueryWfOutcomes(preamble, wire, "MSBF", "OFF", python) :
         \E p \in {run_experiment(session, r, session.data)} :
           \E o \in Outcomes(p) : FinishAwg("run_experiment", o)

\* the caller is free to call a method: no call is under way
Stepping == entry = "steps" /\ ncalls < MaxCalls /\ run.status # "waiting"

\* the caller calls one of the steps itself
ConfigureAwg ==
    /\ Stepping
    /\ \E p \in {configure_awg(session)} :
         \E o \in Outcomes(p) : FinishAwg("configure_awg", o)

ConfigureTrigger ==
    /\ Stepping
    /\ \E p \in {configure_trigger(session)} :
         \E o \in Outcomes(p) : Finish("configure_trigger", o)

ConfigureOscilloscope ==
    /\ Stepping
    /\ \E p \in {configure_oscilloscope(session)} :
         \E o \in Outcomes(p) : Finish("configure_oscilloscope", o)

\* apply_and_capture_waveform up to the wait: the print of line 49 (which
\* raises for a PUNDPulse) and the software trigger of line 50; when the
\* trigger is sent the call is under way and the host sleeps
ApplyAndCapture ==
    /\ Stepping
    /\ IF ~HasInstruments(session)
       THEN Finish("apply_and_capture_waveform",
                   Outcome("apply_and_capture_waveform", <<>>, "AttributeError"))
       ELSE \E t \in {Outcome("apply_and_capture_waveform",
                              send_software_trigger, "none")} :
              \/ Finish("apply_and_capture_waveform", Execute(t, 1))
              \/ /\ events' = events \o t.plan
                 /\ awg_mem' = Device(awg_mem, t.plan)
                 /\ run' = [status |-> "waiting",
                            method |-> "apply_and_capture_waveform",
                            args |-> <<>>, error |-> "none", failed_step |-> ""]
                 /\ UNCHANGED <<python, session, entry, ncalls, sparse_t,
                                sparse_v>>
                 /\ UNCHANGED decodeVars
                 /\ UNCHANGED densifyVars
                 /\ UNCHANGED scaleVars
                 /\ UNCHANGED configVars

\* the rest of apply_and_capture_waveform: the wait of line 51 is over, the
\* trace is queried (line 52) and line 53 raises
CaptureAfterWait ==
    /\ entry = "steps" /\ run.status = "waiting"
    /\ \E r \in QueryWfOutcomes(preamble, wire, "MSBF", "OFF", python) :
         \E p \in {Outcome("apply_and_capture_waveform",
                           sleep \o QueryEvents(r.io),
                           IF r.status = "error" THEN r.error
                           ELSE "AttributeError")} :
           \E o \in Outcomes(p) : Finish("apply_and_capture_waveform", o)

SaveWaveform ==
    /\ Stepping
    /\ \E p \in {save_waveform(session, session.data)} :
         \E o \in Outcomes(p) : Finish("save_waveform", o)

\* tables the caller uploads itself
ArbTables == {<<0, 1>>, <<1, 0, -1>>}

\* the caller calls create_arb_wf on the session's generator
CreateArbWf ==
    /\ Stepping /\ HasInstruments(session)
    /\ \E d \in ArbTables, name \in {"None", "PV"} :
         \E p \in {Outcome("create_arb_wf", create_arb_wf(d, name), "none")} :
           \E o \in Outcomes(p) :
             FinishCall("create_arb_wf", [data |-> d, name |-> name], o)

NextSession ==
    \/ CreateArbWf
    \/ RunExperiment
    \/ ConfigureAwg
    \/ ConfigureTrigger
    \/ ConfigureOscilloscope
    \/ ApplyAndCapture
    \/ CaptureAfterWait
    \/ SaveWaveform

SpecSession == InitSession /\ [][NextSession]_vars
(***************************************************************************)
(* Properties of the session                                               *)
(***************************************************************************)
StepIndex(step) ==
    CASE step = "configure_awg" -> 1
      [] step = "configure_trigger" -> 2
      [] step = "configure_oscilloscope" -> 3
      [] step = "apply_and_capture_waveform" -> 4
      [] step = "save_waveform" -> 5
      [] OTHER -> 0

\* the table has been uploaded or selected on a channel
IsUploadOrSelect(e) == e.op \in {"create_arb_wf", "configure_arb_wf"}

IsAwgReset(e) == e.dev = "awg" /\ e.cmd = "*RST"

\* C13 as stated: in a run of run_experiment no *RST is sent to the
\* generator after the arbitrary waveform has been uploaded or selected.
C13_ResetBeforeUpload ==
    run.method = "run_experiment" =>
        \A i, j \in 1..Len(events) :
            (i < j /\ IsUploadOrSelect(events[i])) => ~IsAwgReset(events[j])

\* the last command Scope.configure_trigger_edge writes, with which
\* configure_oscilloscope has configured the oscilloscope
IsScopeConfigured(e) ==
    e.dev = "osc" /\ e.step = "configure_oscilloscope"
    /\ e.op = "configure_trigger_edge"

\* C14: the preamble query and the data query are issued only after the
\* software trigger and the wait that follows it, and in a run of
\* run_experiment the software trigger is sent only after the generator's
\* trigger source has been armed and the oscilloscope has been configured.
C14_TriggerThenFetch ==
    /\ \A i \in 1..Len(events) :
           events[i].op = "query_wf" =>
               \E j, k \in 1..(i - 1) :
                   /\ j < k
                   /\ events[j].op = "send_software_trigger"
                   /\ events[k].op = "time.sleep"
    /\ run.method = "run_experiment" =>
           \A i \in 1..Len(events) :
               events[i].op = "send_software_trigger" =>
                   /\ \E j \in 1..(i - 1) :
                          events[j].op = "Awg.configure_trigger"
                   /\ \E j \in 1..(i - 1) : IsScopeConfigured(events[j])

\* a run of run_experiment that armed the generator's trigger source and
\* ended at its third step, before any trigger or query
C14_Witness ==
    /\ run.method = "run_experiment"
    /\ run.status = "raised" /\ run.error = "NameError"
    /\ run.failed_step = "configure_oscilloscope"
    /\ \E i \in 1..Len(events) : events[i].cmd = ":ARM:SOUR1 MAN"
    /\ \A i \in 1..Len(events) :
           events[i].op \notin {"send_software_trigger", "query_wf"}

\* C15: when a step of run_experiment fails, the error reaches the caller,
\* no later step has sent a command, self.data is not set and nothing is
\* exported.
C15_AbortOnFailure ==
    (run.method = "run_experiment" /\ run.failed_step # "") =>
        /\ run.status = "raised"
        /\ run.error # "none"
        /\ \A i \in 1..Len(events) :
               StepIndex(events[i].step) <= StepIndex(run.failed_step)
        /\ session.data \in {"None", "absent"}
        /\ \A i \in 1..Len(events) : events[i].op # "to_csv"

\* run_experiment stopped by a transport failure at the third write of
\* configure_trigger: the seven writes of configure_awg and two of
\* configure_trigger were sent, nothing after them
C15_Witness ==
    /\ run.method = "run_experiment"
    /\ run.status = "raised" /\ run.error = "TransportError"
    /\ run.failed_step = "configure_trigger"
    /\ Len(events) = 9
    /\ events[9].cmd = "*CLS"

\* C16 as stated: when no transport call fails, a run of run_experiment
\* ends by returning, after all five steps in order, with the captured trace
\* stored in self.data and exported.
C16_RunCompletes ==
    (run.method = "run_experiment" /\ run.error # "TransportError") =>
        /\ run.status = "returned"
        /\ \E a, t, q, x \in 1..Len(events) :
               /\ a < t /\ t < q /\ q < x
               /\ events[a].step = "configure_awg"
               /\ events[t].step = "configure_trigger"
               /\ events[q].op = "query_wf"
               /\ events[x].op = "to_csv"
        /\ session.data \notin {"None", "absent"}

\* the stages of synthesis completed by configure_awg, in order
Phases ==
    LET ev == SelectSeq(events,
                  LAMBDA e : e.step = "configure_awg" /\ e.mark # "")
    IN  [i \in 1..Len(ev) |-> ev[i].mark]

\* C17 as stated: a synthesis-and-upload sequence of a PUNDPulse that no
\* transport failure interrupts passes through BreakpointsComputed,
\* Densified, Scaled, UploadedVolatile, Named (optional) and
\* ConfiguredOnChannel, in that order.
C17_SynthesisOrder ==
    (session.recipe = "PUND" /\ ncalls = 1
       /\ run.method \in {"configure_awg", "run_experiment"}
       /\ run.error # "TransportError") =>
        Phases \in {<<"BreakpointsComputed", "Densified", "Scaled",
                      "UploadedVolatile", "Named", "ConfiguredOnChannel">>,
                    <<"BreakpointsComputed", "Densified", "Scaled",
                      "UploadedVolatile", "ConfiguredOnChannel">>}

\* C18 as stated: PUNDPulse.configure_awg hands its breakpoints to the
\* densifier, and they are strictly increasing in x with every x >= 0.
C18_StrictlyIncreasing ==
    sparse_t # <<>> =>
        /\ \E i \in 1..Len(Phases) : Phases[i] = "Densified"
        /\ \A i \in 1..Len(sparse_t) : FLeq(FZero(FALSE), sparse_t[i])
        /\ \A i \in 1..(Len(sparse_t) - 1) :
               FLess(sparse_t[i], sparse_t[i + 1])
(***************************************************************************)
(* Python values as arguments, and their text in a command.  An argument   *)
(* is [given, type, val, chars, text]: whether it is not None, its type,   *)
(* the value of an int or a float, the characters of a str, and str() of   *)
(* it, which is what "{}".format puts in the command.  An argument that is *)
(* always None or a str is written as a string, "None" standing for None;  *)
(* such strings hold ASCII characters only.                                *)
(***************************************************************************)
RECURSIVE Join(_)
Join(cs) == IF Len(cs) = 0 THEN "" ELSE cs[1] \o Join(Tail(cs))

RECURSIVE NumDigits(_)
NumDigits(n) == IF n < 10 THEN 1 ELSE 1 + NumDigits(n \div 10)

RECURSIVE Zeros(_)
Zeros(k) == IF k <= 0 THEN "" ELSE "0" \o Zeros(k - 1)

\* n written with at least k digits
PadDigits(n, k) == Zeros(k - NumDigits(n)) \o ToString(n)

\* the decimal digits of a number below 10^18
BigDigits(a) ==
    IF BigCmp(a, BigPow10(9)) < 0 THEN ToString(BigToInt(a))
    ELSE LET q == BigDiv(a, BigPow10(9)).q
         IN  ToString(BigToInt(q))
             \o PadDigits(BigToInt(BigSub(a, BigMul(q, BigPow10(9)))), 9)

\* the fraction [n, d] that is the magnitude of a finite a divided by 10^q
Scaled10(a, q) ==
    LET n0 == IF q < 0 THEN BigMul(a.mant, BigPow5(-q)) ELSE a.mant
        d0 == IF q > 0 THEN BigPow5(q) ELSE <<1>>
    IN  [n |-> IF a.exp >= q THEN BigShl(n0, a.exp - q) ELSE n0,
         d |-> IF a.exp < q THEN BigShl(d0, q - a.exp) ELSE d0]

\* the magnitude of a finite a is 10^k or more
AtLeastPow10(a, k) == BigCmp(Scaled10(a, k).n, Scaled10(a, k).d) >= 0

\* the k with 10^k <= |a| < 10^(k+1) for a finite a # 0: it lies next to
\* the exponent of the top bit times log10(2)
DecimalExponent(a) ==
    LET g == ((Top(a) - 1) * 30103) \div 100000
    IN  CHOOSE k \in (g - 1)..(g + 1) :
            AtLeastPow10(a, k) /\ ~AtLeastPow10(a, k + 1)

\* the decimal c * 10^q reads back as the magnitude of a
ReadsBack(c, q, a) ==
    c # <<>> /\ DecimalValue(FALSE, c, q) = [a EXCEPT !.neg = FALSE]

\* the decimal of n digits nearest to the magnitude of a that reads back as
\* it, as [found, c, q] for c * 10^q: of the two decimals of n digits next
\* to a (sc is a / 10^q, lo its whole part) the one that reads back, and
\* of two that do the nearer one
NearestOf(lo, hi, up, lower, upper, q) ==
    IF lower /\ upper
    THEN [found |-> TRUE, c |-> IF up THEN hi ELSE lo, q |-> q]
    ELSE IF lower THEN [found |-> TRUE, c |-> lo, q |-> q]
    ELSE IF upper THEN [found |-> TRUE, c |-> hi, q |-> q]
    ELSE [found |-> FALSE, c |-> <<>>, q |-> q]

\* twice the remainder is above the divisor d, or equal to it with lo odd
NearerUp(twice, d, lo) ==
    \/ BigCmp(twice, d) > 0
    \/ BigCmp(twice, d) = 0 /\ BigIsOdd(lo)

NearestBetween(sc, lo, hi, q, a) ==
    NearestOf(lo, hi,
              NearerUp(BigMulSmall(BigSub(sc.n, BigMul(lo, sc.d)), 2, 0),
                       sc.d, lo),
              ReadsBack(lo, q, a), ReadsBack(hi, q, a), q)

NearestFrom(sc, lo, q, a) == NearestBetween(sc, lo, BigAdd(lo, <<1>>), q, a)

NearestIn(sc, q, a) == NearestFrom(sc, BigDiv(sc.n, sc.d).q, q, a)

Nearest(a, q) == NearestIn(Scaled10(a, q), q, a)

\* the shortest decimal that reads back as a: 17 digits always do
RECURSIVE Shortest(_, _, _)
ShortestOr(r, a, k, n) ==
    IF n >= 17 \/ r.found THEN r ELSE Shortest(a, k, n + 1)

Shortest(a, k, n) == ShortestOr(Nearest(a, k - n + 1), a, k, n)

\* the digits s without the zeros at their end
TrimZeros(s) ==
    SubSeq(s, 1, SetMax({i \in 1..Len(s) : SubSeq(s, i, i) # "0"}))

\* the digits s with the decimal point after the first decpt of them:
\* with an exponent when decpt is below -3 or above 16, otherwise in full
\* with at least one digit behind the point
Notation(s, decpt) ==
    IF decpt <= -4 \/ decpt > 16
    THEN SubSeq(s, 1, 1)
         \o (IF Len(s) > 1 THEN "." \o SubSeq(s, 2, Len(s)) ELSE "")
         \o (IF decpt - 1 < 0 THEN "e-" ELSE "e+")
         \o PadDigits(Abs(decpt - 1), 2)
    ELSE IF decpt <= 0 THEN "0." \o Zeros(-decpt) \o s
    ELSE IF decpt >= Len(s) THEN s \o Zeros(decpt - Len(s)) \o ".0"
    ELSE SubSeq(s, 1, decpt) \o "." \o SubSeq(s, decpt + 1, Len(s))

Pointed(ds, q) == Notation(TrimZeros(ds), Len(ds) + q)

ReprOf(sh) == Pointed(BigDigits(sh.c), sh.q)

\* repr(x) and str(x) of a float x, which is what "{}".format(x) puts in a
\* command: the shortest decimal that reads back as x
Repr(a) ==
    IF a.cls = "nan" THEN "nan"
    ELSE IF a.cls = "inf" THEN (IF a.neg THEN "-inf" ELSE "inf")
    ELSE IF a.mant = <<>> THEN (IF a.neg THEN "-0.0" ELSE "0.0")
    ELSE (IF a.neg THEN "-" ELSE "")
         \o ReprOf(Shortest(a, DecimalExponent(a), 1))

\* str(x) of the float x written v
FloatStr(v) == Repr(FloatOfRat(v, Double))

NoneArg == [given |-> FALSE, type |-> "NoneType", val |-> RatInt(0),
            chars |-> <<>>, text |-> "None"]

\* an int, a float, and a str given by its characters
IntArg(n) == [given |-> TRUE, type |-> "int", val |-> RatInt(n),
              chars |-> <<>>, text |-> ToString(n)]

FloatArg(v) == [given |-> TRUE, type |-> "float", val |-> v, chars |-> <<>>,
                text |-> FloatStr(v)]

Image(f) == {f[v] : v \in DOMAIN f}

\* The float arguments the callers pass, each with its text as Python
\* formats it, keyed by value.
FloatArgs ==
    [v \in {Rat(1, 2), Rat(2, Pow10(9)), RatInt(1)} |-> FloatArg(v)]

StrArg(cs) == [given |-> TRUE, type |-> "str", val |-> RatInt(0),
               chars |-> cs, text |-> Join(cs)]

\* the characters of a string
Chars(t) == [i \in 1..Len(t) |-> SubSeq(t, i, i)]

\* the value of an argument written as a string
TextValue(t) == IF t = "None" THEN NoneArg ELSE StrArg(Chars(t))

\* str.lower() of a string
Lower(t, py) == Join(LowerText(Chars(t), py))

(***************************************************************************)
(* Instrument._check_params                                                *)
(***************************************************************************)
ScopeClasses == {"Scope", "Dsox3024a"}

AwgClasses == {"Awg", "Keysight81150a"}

\* a class attribute is [kind, key, value]: the type of the object ("None"
\* also when the class has no such attribute), and for a dict its first key
\* and the value under it; for a tuple and a list the value is the object
\* itself
Undeclared == [kind |-> "None", key |-> "", value |-> <<>>]

Str == [kind |-> "str", key |-> "", value |-> <<>>]

Tuple(lo, hi) == [kind |-> "tuple", key |-> "", value |-> <<lo, hi>>]

List(items) == [kind |-> "list", key |-> "", value |-> items]

DictRange(num_tuple) == [kind |-> "dict", key |-> "range", value |-> num_tuple]

DictList(items) == [kind |-> "dict", key |-> "list", value |-> items]

TimeBaseTypes == <<"MAIN", "WINDow", "WIND", "XY", "ROLL">>

\* the ranges of Keysight81150a.frequency, one for each function in the
\* order of the dict
FrequencyRanges ==
    << <<Rat(1, Pow10(6)), RatInt(240000000)>>,
       <<Rat(1, Pow10(6)), RatInt(120000000)>>,
       <<Rat(1, Pow10(6)), RatInt(5000000)>>,
       <<Rat(1, Pow10(6)), RatInt(120000000)>>,
       <<Rat(1, Pow10(6)), RatInt(120000000)>>,
       <<Rat(1, Pow10(6)), RatInt(120000000)>> >>

\* the class attribute "key" of an instrument of class cls, as
\* get_class_attributes_from_instance collects it along the base classes:
\* a str in Instrument, None in Scope and Awg, a tuple or a list in
\* Dsox3024a, a one-entry dict in Keysight81150a
ClassAttribute(cls, key) ==
    IF key = "species" THEN Str
    ELSE IF cls = "Dsox3024a"
    THEN CASE key = "voltage_range" -> Tuple(Rat(8, 1000), RatInt(40))
           [] key = "voltage_scale" -> Tuple(Rat(8, 10000), RatInt(4))
           [] key = "time_range" -> Tuple(Rat(2, Pow10(8)), RatInt(500))
           [] key = "time_scale" -> Tuple(Rat(2, Pow10(9)), RatInt(50))
           [] key = "time_base_type" -> List(TimeBaseTypes)
           [] key = "channel" -> List(<<"1", "2", "3", "4">>)
           [] OTHER -> Undeclared
    ELSE IF cls = "Keysight81150a"
    THEN CASE key = "channel" -> DictList(<<"1", "2">>)
           [] key = "voltage" -> DictRange(<<Rat(8, 1000), RatInt(40)>>)
           [] key = "frequency" -> DictRange(FrequencyRanges)
           [] key = "func" ->
                DictList(<<"sine", "square", "ramp", "pulse", "pattern",
                           "arb">>)
           [] key = "voltage_range" -> DictRange(<<Rat(8, 1000), RatInt(40)>>)
           [] key = "voltage_scale" -> DictRange(<<Rat(8, 10000), RatInt(4)>>)
           [] key = "time_range" ->
                DictRange(<<Rat(2, Pow10(8)), RatInt(500)>>)
           [] key = "time_scale" ->
                DictRange(<<Rat(2, Pow10(9)), RatInt(50)>>)
           [] key = "time_base_type" -> DictList(TimeBaseTypes)
           [] OTHER -> Undeclared
    ELSE Undeclared

\* what a helper does: the exception it raises ("none" if it returns) and
\* the truth value it returns
Answer(error, result) == [error |-> error, result |-> result]

\* is_contained(value, lst): membership, ignoring case; a value that is
\* not a str has no method lower
is_contained(value, lst, py) ==
    IF value.type # "str" THEN Answer("AttributeError", FALSE)
    ELSE Answer("none",
                \E i \in 1..Len(lst) :
                    LowerText(value.chars, py) = LowerText(Chars(lst[i]), py))

\* the float a number is compared as: an int and a float by their value, a
\* str by float() of it
NumberOf(value, py) ==
    IF value.type = "str" THEN ParseFloat(value.chars, 64, py).val
    ELSE FloatOfRat(value.val, Double)

\* num_tuple[0] <= value <= num_tuple[1]
Within(v, lo, hi) == FLeq(lo, v) /\ FLeq(v, hi)

\* is_value_between(value, num_tuple): float() of a str first, then the
\* length of num_tuple, then the comparison
is_value_between(value, num_tuple, py) ==
    IF value.type = "str" /\ ~IsFloatText(value.chars, py)
    THEN Answer("ValueError", FALSE)
    ELSE IF Len(num_tuple) # 2 THEN Answer("ValueError", FALSE)
    ELSE Answer("none",
                Within(NumberOf(value, py), FloatOfRat(num_tuple[1], Double),
                       FloatOfRat(num_tuple[2], Double)))

\* exit_with_error when the helper returns False
Accepted(answer) ==
    IF answer.error # "none" THEN answer.error
    ELSE IF ~answer.result THEN "ValueError"
    ELSE "none"

\* the body of the loop of _check_params for the class attribute attr and
\* the argument value: the exception it raises, "none" when it raises none.
\* Only a dict has keys().
CheckParam(attr, value, py) ==
    IF attr.kind = "None" \/ ~value.given THEN "none"
    ELSE IF attr.kind # "dict" THEN "AttributeError"
    ELSE IF attr.key = "range"
    THEN Accepted(is_value_between(value, attr.value, py))
    ELSE IF attr.key = "list"
    THEN Accepted(is_contained(value, attr.value, py))
    ELSE "none"

\* the same for an argument written as a string
CheckText(attr, value, py) == CheckParam(attr, TextValue(value), py)

\* the exceptions a call of _check_params can raise, for the text arguments
\* and the numeric arguments whose names are class attributes (each a pair
\* of name and value): the matching keys are visited in the order of a set,
\* and the first one that fails raises
CheckErrors(cls, texts, numbers, py) ==
    ({CheckText(ClassAttribute(cls, p[1]), p[2], py) : p \in texts}
     \cup {CheckParam(ClassAttribute(cls, p[1]), p[2], py) : p \in numbers})
    \ {"none"}

\* the outcomes of a method: the exception it raises ("none" if it returns)
\* and the commands it has sent
Returns(plan) == [error |-> "none", plan |-> plan]

Raises(err) == [error |-> err, plan |-> <<>>]

\* a method that calls _check_params before it writes
Checked(errs, plan) ==
    IF errs # {} THEN {Raises(err) : err \in errs} ELSE {Returns(plan)}

\* the writes of a method, one event each
Writes(op, dev, cmds) == [i \in 1..Len(cmds) |-> Ev(op, dev, cmds[i], "")]

OnOff(b) == IF b THEN "ON" ELSE "OFF"

(***************************************************************************)
(* The methods of Scope                                                    *)
(***************************************************************************)
\* Instrument.idn: return self.query("*IDN?")
idn(dev) == <<Ev("idn", dev, "*IDN?", "")>>

\* Instrument.reset
reset(dev) == <<Ev("reset", dev, "*RST", "")>>

\* Scope.setup: _check_params, reset, then autoscale or the four settings
Scope_setup(cls, a, py) ==
    Checked(CheckErrors(cls, {}, {<<"channel", a.channel>>,
                                  <<"voltage_range", a.voltage_range>>,
                                  <<"time_range", a.time_range>>}, py),
            reset("osc")
            \o Writes("setup", "osc",
                 (IF a.autoscale THEN <<":AUToscale">>
                  ELSE <<"CHANel" \o a.channel.text \o ":RANGe "
                             \o a.voltage_range.text,
                         "CHANel" \o a.channel.text \o ":OFFSet "
                             \o a.voltage_offset.text,
                         "CHANel" \o a.channel.text \o ":TIMebase:RANGe "
                             \o a.time_range.text,
                         "CHANel" \o a.channel.text \o ":TIMebase:DELay "
                             \o a.delay>>)
                 \o <<":ACQuire:TYPE NORMal">>))

\* the writes of Scope.configure_timebase
TimebaseWrites(a) ==
    (IF a.time_base_type = "None" THEN <<>>
     ELSE <<"TIM:MODE " \o a.time_base_type>>)
    \o (IF a.position = "None" THEN <<>> ELSE <<"TIM:POS " \o a.position>>)
    \o (IF a.time_range.given THEN <<"TIM:RANG " \o a.time_range.text>>
        ELSE <<>>)
    \o (IF a.reference = "None" THEN <<>> ELSE <<"TIM:REF " \o a.reference>>)
    \o (IF a.time_scale.given THEN <<"TIM:SCAL " \o a.time_scale.text>>
        ELSE <<>>)
    \o <<"TIM:VERN " \o OnOff(a.vernier)>>

\* the exceptions Scope.configure_timebase's call of _check_params can raise
TimebaseCheckErrors(cls, a, py) ==
    CheckErrors(cls, {<<"time_base_type", a.time_base_type>>},
                {<<"time_range", a.time_range>>,
                 <<"time_scale", a.time_scale>>}, py)

configure_timebase(cls, a, py) ==
    Checked(TimebaseCheckErrors(cls, a, py),
            Writes("configure_timebase", "osc", TimebaseWrites(a)))

\* Scope.configure_channel
configure_channel(cls, a, py) ==
    Checked(CheckErrors(cls, {<<"channel", a.channel>>},
                        {<<"voltage_scale", a.voltage_scale>>,
                         <<"voltage_range", a.voltage_range>>}, py),
            Writes("configure_channel", "osc",
                <<IF a.scale_mode
                  THEN "CHAN" \o a.channel \o ":SCAL " \o a.voltage_scale.text
                  ELSE "CHAN" \o a.channel \o ":RANG " \o a.voltage_range.text,
                  "CHAN" \o a.channel \o ":OFFS " \o a.voltage_offset,
                  "CHAN" \o a.channel \o ":COUP " \o a.coupling,
                  "CHAN" \o a.channel \o ":PROB " \o a.probe_attenuation,
                  "CHAN" \o a.channel \o ":IMP " \o a.impedance,
                  "CHAN" \o a.channel \o ":DISP " \o OnOff(a.enable_channel)>>))

\* Scope.configure_trigger_characteristics: none of its arguments is a
\* class attribute, so _check_params has nothing to check
configure_trigger_characteristics(a) ==
    Returns(Writes("configure_trigger_characteristics", "osc",
        <<":TRIG:HFR " \o OnOff(a.enable_high_freq_filter),
          ":TRIG:HOLD " \o a.holdoff_time,
          ":TRIG:LEV:HIGH " \o a.high_voltage_level \o ", " \o a.trigger_source,
          ":TRIG:LEV:LOW " \o a.low_voltage_level \o ", " \o a.trigger_source,
          ":TRIG:MODE " \o a.type,
          ":TRIG:NREJ " \o OnOff(a.enable_noise_filter),
          ":TRIG:SWE " \o a.sweep>>))

\* Scope.configure_trigger_edge
configure_trigger_edge(a) ==
    Returns(Writes("configure_trigger_edge", "osc",
        <<":TRIG:SOUR " \o a.trigger_source,
          ":TRIG:COUP " \o a.input_coupling,
          ":TRIG:LEV " \o a.level,
          ":TRIG:REJ " \o a.filter_type,
          ":TRIG:SLOP " \o a.edge_slope>>))

\* Scope.initiate
initiate == Returns(Writes("initiate", "osc", <<":DIG", "*CLS">>))

\* Scope.setup_wf
setup_wf(a) ==
    Returns(Writes("setup_wf", "osc",
        <<":WAVeform:SOURce " \o a.source,
          ":WAVeform:BYTeorder " \o a.byte_order,
          ":WAVeform:FORMat " \o a.format,
          ":WAVeform:POINts:MODE " \o a.points_mode,
          ":WAVeform:POINts " \o a.points,
          ":WAVeform:UNSigned " \o a.unsigned>>))

(***************************************************************************)
(* The methods of Awg.  None of them calls _check_params.                  *)
(***************************************************************************)
\* Awg.configure_output_amplifier
configure_output_amplifier(channel, type) ==
    Writes("configure_output_amplifier", "awg",
           <<"OUTP" \o channel \o ":ROUT " \o type>>)

\* Awg.output_enable
output_enable(channel, on) ==
    Writes("output_enable", "awg", <<":OUTP" \o channel \o " " \o OnOff(on)>>)

\* Awg.stop: output_enable('1', False); output_enable('2', False)
stop == output_enable("1", FALSE) \o output_enable("2", FALSE)

\* Awg.set_output_wf: the built-in function func replaces whatever the
\* channel played
set_output_wf(a, py) ==
    <<Ev("set_output_wf", "awg",
         ":SOUR:FUNC" \o a.channel \o " " \o a.func, "BuiltIn")>>
    \o Writes("set_output_wf", "awg",
         <<":SOUR:FREQ" \o a.channel \o " " \o a.freq,
           ":VOLT" \o a.channel \o ":OFFS " \o a.offset,
           ":VOLT" \o a.channel \o " " \o a.voltage>>
         \o (IF Lower(a.func, py) \in {"squ", "square"}
             THEN <<":SOUR:FUNC" \o a.channel \o ":DCYC " \o a.duty_cycle>>
             ELSE <<>>)
         \o (IF a.num_cycles # "None" THEN <<":NCYCles" \o a.num_cycles>>
             ELSE <<>>)
         \o (IF Lower(a.func, py) \in {"pulse", "puls"}
             THEN <<":SOUR:FUNC" \o a.channel \o ":PULS:DCYC "
                        \o a.duty_cycle \o "PCT">>
             ELSE <<>>))

\* scaled_data.astype(np.int16): the fraction is dropped; what the cast makes
\* of not-a-number is left to the processor, nan_code stands for it
Int16(v, nan_code) == IF v.cls = "nan" THEN nan_code ELSE FTrunc(v)

\* the codes numpy builds are seen to give for not-a-number
NanCodes == {0, 0 - 32768}

\* the two bytes of a 16-bit code in the order of the host (low byte first)
Int16Bytes(code) ==
    LET u == (code + 65536) % 65536 IN <<u % 256, u \div 256>>

\* ndarray.tobytes()
RECURSIVE ToBytes(_)
ToBytes(codes) ==
    IF Len(codes) = 0 THEN <<>>
    ELSE Int16Bytes(codes[1]) \o ToBytes(Tail(codes))

\* one byte in the text of a bytes object delimited by quote
ByteText(b, quote) ==
    IF b = 9 THEN "\\t"
    ELSE IF b = 10 THEN "\\n"
    ELSE IF b = 13 THEN "\\r"
    ELSE IF b = 92 THEN "\\\\"
    ELSE IF b = 39 /\ quote = "'" THEN "\\'"
    ELSE IF b \in 32..126 THEN Printable[b - 31]
    ELSE "\\x" \o HexDigits[(b \div 16) + 1] \o HexDigits[(b % 16) + 1]

RECURSIVE BytesText(_, _)
BytesText(bs, quote) ==
    IF Len(bs) = 0 THEN ""
    ELSE ByteText(bs[1], quote) \o BytesText(Tail(bs), quote)

\* str() of a bytes object, which is what "{}".format(c) puts in the
\* command: double quotes when it holds a single quote and no double one
BytesRepr(bs) ==
    LET has(b) == \E i \in 1..Len(bs) : bs[i] = b
        quote == IF has(39) /\ ~has(34) THEN "\"" ELSE "'"
    IN  "b" \o quote \o BytesText(bs, quote) \o quote

\* Awg.create_arb_wf_binary(data, name): the table is scaled and cast, and
\* sent as "#", the number of digits of the byte count, the byte count and
\* the text of the bytes object; taken tells whether the generator takes
\* the codes from a block in that form
create_arb_wf_binary(d, name, nan_code, taken) ==
    LET r == scale_waveform_data(d)
        codes == [i \in 1..Len(d) |-> Int16(r.table[i], nan_code)]
        size_of_data == ToString(2 * Len(d))
        block == "#" \o ToString(NumDigits(2 * Len(d))) \o size_of_data
                 \o BytesRepr(ToBytes(codes))
    IN  IF r.status = "error" THEN Raises(r.error)
        ELSE Returns(
          <<Ev("create_arb_wf_binary", "awg", ":FORM:BORD NORM", ""),
            IF taken
            THEN [Ev("create_arb_wf_binary", "awg",
                     ":DATA:DAC VOLATILE, " \o block, "UploadedVolatile")
                     EXCEPT !.data = codes]
            ELSE Ev("create_arb_wf_binary", "awg",
                    ":DATA:DAC VOLATILE, " \o block, ""),
            [Ev("create_arb_wf_binary", "awg",
                ":DATA:COPY " \o name \o ", VOLATILE", "Named")
                EXCEPT !.name = name]>>)

(***************************************************************************)
(* An instrument and its caller                                            *)
(***************************************************************************)
Dev(cls) == IF cls \in ScopeClasses THEN "osc" ELSE "awg"

\* Scope.setup(): its defaults (those of Dsox3024a.setup for that class),
\* or the checked arguments given as None
SetupArgs(cls) ==
    {[channel |-> IF n THEN NoneArg ELSE IntArg(1),
      voltage_range |-> IF n THEN NoneArg ELSE IntArg(16),
      voltage_offset |-> IF cls = "Scope" THEN FloatArgs[RatInt(1)]
                         ELSE IntArg(1),
      delay |-> "100e-6",
      time_range |-> IF n THEN NoneArg ELSE StrArg(<<"1", "e", "-", "3">>),
      autoscale |-> au] : n \in BOOLEAN, au \in BOOLEAN}

TimeScales ==
    Image(FloatArgs)
    \cup {NoneArg, IntArg(1), IntArg(0),
     StrArg(<<"1", "e", "-", "3">>)}

TimebaseArgs ==
    [time_base_type : {"MAIN", "BAD", "None"}, position : {"0.0"},
     reference : {"CENT"}, time_range : {NoneArg}, time_scale : TimeScales,
     vernier : {FALSE}]
    \cup
    {[time_base_type |-> "MAIN", position |-> "None", reference |-> "CENT",
      time_range |-> StrArg(<<"1", "e", "-", "3">>), time_scale |-> NoneArg,
      vernier |-> TRUE],
     [time_base_type |-> "None", position |-> "0.0", reference |-> "None",
      time_range |-> NoneArg, time_scale |-> NoneArg, vernier |-> FALSE]}

ChannelArgs ==
    [channel : {"1", "9", "None"}, scale_mode : BOOLEAN,
     voltage_scale : {StrArg(<<"4">>), NoneArg},
     voltage_range : {StrArg(<<"4", "0">>), NoneArg},
     voltage_offset : {"0.0"}, coupling : {"DC"},
     probe_attenuation : {"1.0"}, impedance : {"ONEM"},
     enable_channel : BOOLEAN]

TriggerCharacteristicsArgs ==
    [type : {"EDGE"}, holdoff_time : {"4E-8"}, low_voltage_level : {"1"},
     high_voltage_level : {"1"}, trigger_source : {"CHAN1"},
     sweep : {"AUTO"}, enable_high_freq_filter : BOOLEAN,
     enable_noise_filter : BOOLEAN]

TriggerEdgeArgs ==
    [trigger_source : {"CHAN1", "EXT"}, input_coupling : {"AC"},
     edge_slope : {"POS"}, level : {"0"}, filter_type : {"OFF"}]

SetupWfArgs ==
    [source : {"CHAN1"}, byte_order : {"MSBF"}, format : {"byte", "WORD"},
     points : {"1000"}, points_mode : {"NORMal"}, unsigned : {"OFF"}]

ImpedanceArgs ==
    [channel : {"1", "2", "3"}, source_impedance : {"50.0"},
     load_impedance : {"50.0"}]

OutputAmplifierArgs == [channel : {"1"}, type : {"HIV", "HIB"}]

AwgTriggerArgs ==
    [channel : {"1"}, source : {"IMM", "MAN"}, mode : {"EDGE"},
     slope : {"POS"}]

\* tables for the binary upload: two levels, four levels, a flat one, none,
\* one whose middle code is the byte of the grave accent
BinaryTables ==
    {<<0, 1>>, <<0, 1, 2, 3>>, <<1, 1>>, <<>>, <<0 - 8191, 97, 8191>>}

ArbArgs == [data : {<<0, 1>>, <<1, 0, -1>>}, name : {"None", "PV"}]

ConfigureArbArgs ==
    [channel : {"1"}, name : {"VOLATILE", "PV", "ARB1"}, gain : {"1.0"},
     offset : {"0.00"}, freq : {"1000"}]

OutputEnableArgs == [channel : {"1"}, on : BOOLEAN]

OutputWfArgs ==
    [channel : {"1"}, func : {"SIN", "SQU", "PULSe"}, freq : {"1e3"},
     voltage : {"1"}, offset : {"0"}, duty_cycle : {"50"},
     num_cycles : {"None", "5"}]

\* the one argument of a direct call of _check_params: a name and a value
\* (among the values the digit one of Kawi, a digit from Unicode 15.0 on,
\* and a capital sigma after a mark that is case-ignorable from 15.0 on)
CheckParamsArgs ==
    [key : {"channel", "frequency", "time_base_type", "time_scale",
            "species", "position"},
     value : {NoneArg, IntArg(1), StrArg(<<" ", "2", " ">>),
              StrArg(<<"X", "Y">>), StrArg(<<"\\U00011f51">>),
              StrArg(<<"A", "\\u0ece", "\\u03a3">>)}]

InitConfigure ==
    /\ python \in Pythons
    /\ inst \in ScopeClasses \cup AwgClasses
    /\ inst_log = <<>>
    /\ inst_calls = 0
    /\ inst_res = NoCall
    /\ awg_mem \in IF inst \in AwgClasses THEN Memories ELSE {EmptyMemory}
    /\ DecodeIdle
    /\ DensifyIdle
    /\ ScaleIdle
    /\ SessionIdle

Commands(plan) == [i \in 1..Len(plan) |-> plan[i].cmd]

\* a caller makes at most MaxConfigCalls calls on one instrument
MayCall == inst_calls < MaxConfigCalls

\* the state after a method of the instrument has run with outcome o
Call(method, a, o) ==
    /\ MayCall
    /\ inst_res' = [method |-> method, args |-> a,
                    status |-> IF o.error = "none" THEN "returned"
                               ELSE "raised",
                    error |-> o.error, sent |-> Commands(o.plan)]
    /\ inst_log' = inst_log \o Commands(o.plan)
    /\ awg_mem' = Device(awg_mem, o.plan)
    /\ inst_calls' = inst_calls + 1
    /\ UNCHANGED <<python, inst, decodeVars, densifyVars, scaleVars,
                   sessionVars>>

\* Instrument.idn, Instrument.reset and Instrument.initialize, on either
\* kind of instrument
Idn == Call("idn", <<>>, Returns(idn(Dev(inst))))

Reset == Call("reset", <<>>, Returns(reset(Dev(inst))))

Initialize == Call("initialize", <<>>, Returns(initialize(Dev(inst))))

\* Instrument._check_params({key: value}), on either kind of instrument
CheckParams ==
    /\ MayCall
    /\ \E a \in CheckParamsArgs :
          \E o \in Checked({CheckParam(ClassAttribute(inst, a.key), a.value,
                                      python)}
                             \ {"none"}, <<>>) :
             Call("_check_params", a, o)

\* Scope.setup, or Dsox3024a.setup which passes its arguments on to it
ScopeSetup ==
    /\ MayCall
    /\ inst \in ScopeClasses
    /\ \E a \in SetupArgs(inst) : \E o \in Scope_setup(inst, a, python) :
         Call("setup", a, o)

\* one call of Scope.configure_timebase: _check_params first, then the writes
ConfigureTimebase ==
    /\ MayCall
    /\ inst \in ScopeClasses
    /\ \E a \in TimebaseArgs : \E o \in configure_timebase(inst, a, python) :
         Call("configure_timebase", a, o)

ConfigureChannel ==
    /\ MayCall
    /\ inst \in ScopeClasses
    /\ \E a \in ChannelArgs : \E o \in configure_channel(inst, a, python) :
         Call("configure_channel", a, o)

ConfigureTriggerCharacteristics ==
    /\ MayCall
    /\ inst \in ScopeClasses
    /\ \E a \in TriggerCharacteristicsArgs :
         Call("configure_trigger_characteristics", a,
              configure_trigger_characteristics(a))

ConfigureTriggerEdge ==
    /\ MayCall
    /\ inst \in ScopeClasses
    /\ \E a \in TriggerEdgeArgs :
         Call("configure_trigger_edge", a, configure_trigger_edge(a))

Initiate ==
    /\ MayCall
    /\ inst \in ScopeClasses
    /\ Call("initiate", <<>>, initiate)

SetupWf ==
    /\ MayCall
    /\ inst \in ScopeClasses
    /\ \E a \in SetupWfArgs : Call("setup_wf", a, setup_wf(a))

\* Keysight81150a.setup calls super().setup, which Awg does not have
AwgSetup ==
    /\ inst = "Keysight81150a"
    /\ Call("setup", <<>>, Raises("AttributeError"))

\* one call of Awg.configure_impedance: it writes without any check
ConfigureImpedance ==
    /\ MayCall
    /\ inst \in AwgClasses
    /\ \E a \in ImpedanceArgs :
         Call("configure_impedance", a,
              Returns(configure_impedance(a.channel, a.source_impedance,
                                          a.load_impedance)))

ConfigureOutputAmplifier ==
    /\ MayCall
    /\ inst \in AwgClasses
    /\ \E a \in OutputAmplifierArgs :
         Call("configure_output_amplifier", a,
              Returns(configure_output_amplifier(a.channel, a.type)))

ConfigureAwgTrigger ==
    /\ MayCall
    /\ inst \in AwgClasses
    /\ \E a \in AwgTriggerArgs :
         Call("configure_trigger", a,
              Returns(Awg_configure_trigger(a.channel, a.source, a.mode,
                                            a.slope)))

CreateArbWfBinary ==
    /\ MayCall
    /\ inst \in AwgClasses
    /\ \E d \in BinaryTables, name \in {"ARB1", "PV"}, nan_code \in NanCodes,
          taken \in BOOLEAN :
         Call("create_arb_wf_binary", [data |-> d, name |-> name],
              create_arb_wf_binary(d, name, nan_code, taken))

CreateArbWfDirect ==
    /\ MayCall
    /\ inst \in AwgClasses
    /\ \E a \in ArbArgs :
         Call("create_arb_wf", a, Returns(create_arb_wf(a.data, a.name)))

ConfigureArbWf ==
    /\ MayCall
    /\ inst \in AwgClasses
    /\ \E a \in ConfigureArbArgs :
         Call("configure_arb_wf", a,
              Returns(configure_arb_wf(a.channel, a.name, a.gain, a.offset,
                                       a.freq)))

OutputEnable ==
    /\ MayCall
    /\ inst \in AwgClasses
    /\ \E a \in OutputEnableArgs :
         Call("output_enable", a, Returns(output_enable(a.channel, a.on)))

SendSoftwareTrigger ==
    /\ MayCall
    /\ inst \in AwgClasses
    /\ Call("send_software_trigger", <<>>, Returns(send_software_trigger))

Stop ==
    /\ MayCall
    /\ inst \in AwgClasses
    /\ Call("stop", <<>>, Returns(stop))

SetOutputWf ==
    /\ MayCall
    /\ inst \in AwgClasses
    /\ \E a \in OutputWfArgs :
         Call("set_output_wf", a, Returns(set_output_wf(a, python)))

CoupleChannels ==
    /\ MayCall
    /\ inst \in AwgClasses
    /\ Call("couple_channels", <<>>, Returns(couple_channels))

NextConfigure ==
    \/ Idn
    \/ Reset
    \/ Initialize
    \/ CheckParams
    \/ ScopeSetup
    \/ ConfigureTimebase
    \/ ConfigureChannel
    \/ ConfigureTriggerCharacteristics
    \/ ConfigureTriggerEdge
    \/ Initiate
    \/ SetupWf
    \/ AwgSetup
    \/ ConfigureImpedance
    \/ ConfigureOutputAmplifier
    \/ ConfigureAwgTrigger
    \/ CreateArbWfBinary
    \/ CreateArbWfDirect
    \/ ConfigureArbWf
    \/ OutputEnable
    \/ SendSoftwareTrigger
    \/ Stop
    \/ SetOutputWf
    \/ CoupleChannels

SpecConfigure == InitConfigure /\ [][NextConfigure]_vars

(***************************************************************************)
(* Properties of the configuration methods                                 *)
(***************************************************************************)
\* the value v of a text argument fails the constraint declared for it
FailsAllowedSet(attr, v, py) ==
    /\ attr.kind = "list" \/ (attr.kind = "dict" /\ attr.key = "list")
    /\ v # "None"
    /\ \A i \in 1..Len(attr.value) : Lower(v, py) # Lower(attr.value[i], py)

\* the value v of a numeric argument fails the range declared for it
FailsRange(attr, v, py) ==
    /\ attr.kind = "tuple" \/ (attr.kind = "dict" /\ attr.key = "range")
    /\ Len(attr.value) = 2
    /\ v.given
    /\ ~Within(NumberOf(v, py), FloatOfRat(attr.value[1], Double),
               FloatOfRat(attr.value[2], Double))

FailsConstraint ==
    \/ /\ inst_res.method = "configure_timebase"
       /\ \/ FailsAllowedSet(ClassAttribute(inst, "time_base_type"),
                             inst_res.args.time_base_type, python)
          \/ FailsRange(ClassAttribute(inst, "time_scale"),
                        inst_res.args.time_scale, python)
    \/ /\ inst_res.method = "configure_impedance"
       /\ FailsAllowedSet(ClassAttribute(inst, "channel"),
                          inst_res.args.channel, python)

\* C19 as stated: a configuration call with a value that fails the range or
\* allowed-set declared for its argument raises an error and writes nothing.
C19_CheckedBeforeSend ==
    FailsConstraint => (inst_res.status = "raised" /\ inst_res.sent = <<>>)
(***************************************************************************)
(* Properties of the upload                                                *)
(***************************************************************************)
\* the commands of the call that has just been made
NewCommands ==
    [i \in 1..(Len(events') - Len(events)) |-> events'[Len(events) + i].cmd]

C23_Step ==
    (ncalls' = ncalls + 1 /\ run'.method = "create_arb_wf") =>
        LET a == run'.args
            upload == ":DATA VOLATILE, " \o DataString(a.data)
            copy == ":DATA:COPY " \o a.name \o ", VOLATILE"
        IN  /\ Len(NewCommands) >= 1 => NewCommands[1] = upload
            /\ Len(NewCommands) >= 2 =>
                   (a.name # "None" /\ NewCommands = <<upload, copy>>)
            /\ run'.status = "returned" =>
                   IF a.name = "None"
                   THEN /\ NewCommands = <<upload>>
                        /\ awg_mem'.volatile = a.data
                        /\ awg_mem'.stored = awg_mem.stored
                   ELSE NewCommands = <<upload, copy>>

\* C23: create_arb_wf writes the table to volatile memory first; it sends the
\* copy to a name only when a name is given, and only after the upload; with
\* no name it sends exactly one command and the generator's named waveforms
\* are what they were, the table being in volatile memory only.
C23_UploadThenCopy == [][C23_Step]_vars

\* both kinds of call have been made: one with a name (upload, then copy)
\* and then one without (the upload alone)
C23_Witness ==
    /\ run.method = "create_arb_wf" /\ run.status = "returned"
    /\ run.args.name = "None" /\ run.args.data = <<1, 0, -1>>
    /\ Len(events) = 3
    /\ events[1].cmd = ":DATA VOLATILE, 0,1"
    /\ events[2].cmd = ":DATA:COPY PV, VOLATILE"
    /\ events[3].cmd = ":DATA VOLATILE, 1,0,-1"
    /\ awg_mem.volatile = <<1, 0, -1>>
    /\ awg_mem.stored = <<[name |-> "PV", table |-> <<0, 1>>]>>

\* C24: when the generator has no free slot, naming the uploaded table fails
\* without raising an error, the table stays in volatile memory, and
\* configure_awg ends with the channel set to play the table just uploaded.
C24_PlaysUploadedTable ==
    (/\ run.method = "configure_awg" /\ HasInstruments(session)
     /\ run.error # "TransportError"
     /\ awg_mem.refused) =>
        /\ run.status = "returned"
        /\ awg_mem.volatile = InterpVoltageArray(session)
        /\ Playing(awg_mem) =
               [found |-> TRUE, table |-> InterpVoltageArray(session)]
(***************************************************************************)
(* Properties of the duration of the stimulus                              *)
(***************************************************************************)
\* the session has written cmd to the oscilloscope in configure_oscilloscope
ScopeWasSent(cmd) ==
    \E i \in DOMAIN events :
        /\ events[i].step = "configure_oscilloscope"
        /\ events[i].dev = "osc" /\ events[i].cmd = cmd

\* C25: for every recipe, configure_oscilloscope sets the timebase from the
\* duration of the stimulus, which is defined: scale = duration, position =
\* 5 x duration, reference at the centre.
C25_TimebaseFromDuration ==
    (run.method = "configure_oscilloscope" /\ run.error # "TransportError") =>
        /\ Length(session).defined
        /\ run.status = "returned"
        /\ ScopeWasSent("TIM:SCAL " \o Repr(Length(session).val))
        /\ ScopeWasSent("TIM:POS " \o
               Repr(FMul(FloatOfInt(5), Length(session).val, Double)))
        /\ ScopeWasSent("TIM:REF CENTer")

\* the nominal duration of the stimulus: one period of the loop, or the sum
\* of the widths and delays of the pulse train
NominalDuration(s) ==
    IF Length(s).defined THEN Length(s).val
    ELSE SumTimes(s)[7]

\* C26: for every recipe, the playback frequency configured on the generator
\* for the uploaded table is the reciprocal of the nominal duration of the
\* stimulus (frequency x duration = 1).
C26_FrequencyIsReciprocal ==
    (run.method = "configure_awg" /\ run.error # "TransportError") =>
        \E i \in DOMAIN events, f \in Frequencies :
            /\ events[i].step = "configure_awg"
            /\ events[i].cmd = ":FREQ1 " \o ToString(f)
            /\ FMul(FloatOfInt(f), NominalDuration(session), Double)
                   = FloatOfInt(1)
====
